---- MODULE Spec2Model ----
(***************************************************************************)
(* State-machine model of the resilient batch submission pipeline of the   *)
(* Laylo CSV importer: ProgressTracker / ProgressState, the command retry  *)
(* loop over HttpClient.request, the token-bucket RateLimiter, the         *)
(* Semaphore-bounded BatchProcessCommand and the resume path.              *)
(* Each component has its own specification (SpecTracker, SpecRetry, ...)  *)
(* over the variables of that component; the other variables stay at their *)
(* initial values.                                                         *)
(***************************************************************************)
EXTENDS Integers, Sequences, FiniteSets, TLC

VARIABLES
  \* ---- ProgressTracker / ProgressState (ProgressTracker.js)
  status,                \* ProgressState.status
  totalRecords,          \* ProgressState.totalRecords
  processedRecords,      \* ProgressState.processedRecords
  successfulRecords,     \* ProgressState.successfulRecords
  failedRecords,         \* ProgressState.failedRecords
  currentPhase,          \* ProgressState.currentPhase
  currentBatch,          \* ProgressState.currentBatch
  currentBatchSize,      \* ProgressState.currentBatchSize
  currentBatchProcessed, \* ProgressState.currentBatchProcessed
  errors,                \* ProgressState.errors (names of the recorded errors)
  warnings,              \* ProgressState.warnings (length)
  milestones,            \* ProgressState.milestones (length)
  observers,             \* ProgressTracker.observers (ordered list)
  updateInterval,        \* ProgressTracker.updateInterval is set
  delivered,             \* observers whose onProgressUpdate ran for the last event
  raised                 \* the last tracker call threw to its caller

trackerVars == <<status, totalRecords, processedRecords, successfulRecords,
                 failedRecords, currentPhase, currentBatch, currentBatchSize,
                 currentBatchProcessed, errors, warnings, milestones,
                 observers, updateInterval, delivered, raised>>

(***************************************************************************)
(* Bounds of the model.                                                    *)
(***************************************************************************)
MaxRecords == 2      \* recordProcessed calls explored
MaxLog == 1          \* entries explored in errors, warnings and milestones together
MaxObservers == 1    \* length of the observer list explored

ObserverIds == {1, 2}
Phases == {"import"}
BatchNumbers == {1}
BatchSizes == {2}

(***************************************************************************)
(* ProgressTracker                                                         *)
(***************************************************************************)

\* ProgressEventType values that updateProgress never throttles.
AlwaysNotified == {"session_complete", "phase_change", "milestone_reached",
                   "error_occurred"}

\* ProgressState.update, case RECORD_PROCESSED: this.processedRecords++
ProcessedAfter(event) ==
  IF event.type = "record_processed" THEN processedRecords + 1
  ELSE processedRecords

\* ProgressState.update, case RECORD_PROCESSED: if (event.success) successfulRecords++
SuccessfulAfter(event) ==
  IF event.type = "record_processed" /\ event.success THEN successfulRecords + 1
  ELSE successfulRecords

FailedAfterDropped(event) == failedRecords

\* ProgressState.update, case RECORD_PROCESSED: else failedRecords++
FailedAfter(event) ==
  IF event.type = "record_processed" /\ ~event.success THEN failedRecords + 1
  ELSE failedRecords

\* ProgressState.update(event); st is the status the calling method has
\* already assigned before it calls updateProgress.
ProgressStateUpdate(event, st) ==
  /\ currentPhase' = IF event.type = "phase_change" THEN event.phase
                     ELSE currentPhase
  /\ currentBatch' = IF event.type = "batch_start" THEN event.batchNumber
                     ELSE currentBatch
  /\ currentBatchSize' = IF event.type = "batch_start" THEN event.batchSize
                         ELSE currentBatchSize
  /\ currentBatchProcessed' =
       CASE event.type = "batch_start" -> 0
         [] event.type = "batch_progress" -> event.processed
         [] event.type = "batch_complete" -> currentBatchSize
         [] OTHER -> currentBatchProcessed
  /\ processedRecords' = ProcessedAfter(event)
  /\ successfulRecords' = SuccessfulAfter(event)
  /\ failedRecords' = FailedAfter(event)
  /\ errors' = IF event.type = "error_occurred" THEN Append(errors, event.error)
               ELSE errors
  /\ warnings' = IF event.type = "warning_occurred" THEN warnings + 1
                 ELSE warnings
  /\ milestones' = IF event.type = "milestone_reached" THEN milestones + 1
                   ELSE milestones
  /\ status' = IF event.type = "session_complete"
               THEN (IF event.success THEN "completed" ELSE "failed")
               ELSE st

NotifyUntilThrow(obs, throwers) ==
  {obs[i] : i \in {j \in 1..Len(obs) :
                     \A k \in 1..(j - 1) : obs[k] \notin throwers}}

\* ProgressTracker.notifyObservers: every observer of the list is called in
\* order; an exception of one observer is caught inside the loop, so the
\* observers after it are still called and nothing reaches the caller.
NotifyObservers(obs, throwers) ==
  {obs[i] : i \in 1..Len(obs)}

\* ProgressTracker.updateProgress: the state is always updated, the
\* notification is skipped inside the throttle window except for the
\* always-notified event types.
UpdateProgress(event, st, throttled, throwers) ==
  /\ ProgressStateUpdate(event, st)
  /\ delivered' = IF throttled /\ event.type \notin AlwaysNotified THEN {}
                  ELSE NotifyObservers(observers, throwers)
  /\ raised' = FALSE

\* entries in the three logs of the ProgressState
LogEntries == Len(errors) + warnings + milestones

\* the observers that may throw during a notification
Throwers == SUBSET {observers[i] : i \in 1..Len(observers)}

\* ProgressTracker.addObserver (an observer without onProgressUpdate throws);
\* cap bounds the length of the list explored
AddObserverWithin(o, cap) ==
  /\ Len(observers) < cap
  /\ observers' = Append(observers, o)
  /\ raised' = FALSE
  /\ UNCHANGED <<status, totalRecords, processedRecords, successfulRecords,
                 failedRecords, currentPhase, currentBatch, currentBatchSize,
                 currentBatchProcessed, errors, warnings, milestones,
                 updateInterval, delivered>>

\* ProgressTracker.addObserver
AddObserver(o) == AddObserverWithin(o, MaxObservers)

\* index of the first occurrence of o in obs, 0 if absent (Array.indexOf)
IndexOf(obs, o) ==
  IF \E i \in 1..Len(obs) : obs[i] = o
  THEN CHOOSE i \in 1..Len(obs) :
         obs[i] = o /\ \A j \in 1..(i - 1) : obs[j] # o
  ELSE 0

\* ProgressTracker.removeObserver: splice(index, 1) of the first occurrence
RemoveObserver(o) ==
  /\ LET index == IndexOf(observers, o) IN
       observers' = IF index > 0
                    THEN SubSeq(observers, 1, index - 1)
                           \o SubSeq(observers, index + 1, Len(observers))
                    ELSE observers
  /\ raised' = FALSE
  /\ UNCHANGED <<status, totalRecords, processedRecords, successfulRecords,
                 failedRecords, currentPhase, currentBatch, currentBatchSize,
                 currentBatchProcessed, errors, warnings, milestones,
                 updateInterval, delivered>>

\* ProgressTracker.startSession
StartSession(total, throwers) ==
  /\ totalRecords' = total
  /\ UpdateProgress([type |-> "phase_change", phase |-> "initialization"],
                    "active", FALSE, throwers)
  /\ updateInterval' = TRUE
  /\ UNCHANGED observers

\* ProgressTracker.phaseChange
PhaseChange(newPhase, throwers) ==
  /\ UpdateProgress([type |-> "phase_change", phase |-> newPhase],
                    status, FALSE, throwers)
  /\ UNCHANGED <<totalRecords, observers, updateInterval>>

\* ProgressTracker.batchStart
BatchStart(batchNumber, batchSize, throttled, throwers) ==
  /\ UpdateProgress([type |-> "batch_start", batchNumber |-> batchNumber,
                     batchSize |-> batchSize], status, throttled, throwers)
  /\ UNCHANGED <<totalRecords, observers, updateInterval>>

\* ProgressTracker.batchProgress
BatchProgress(processed, throttled, throwers) ==
  /\ UpdateProgress([type |-> "batch_progress", processed |-> processed],
                    status, throttled, throwers)
  /\ UNCHANGED <<totalRecords, observers, updateInterval>>

\* ProgressTracker.batchComplete
BatchComplete(throttled, throwers) ==
  /\ UpdateProgress([type |-> "batch_complete"], status, throttled, throwers)
  /\ UNCHANGED <<totalRecords, observers, updateInterval>>

\* ProgressTracker.recordProcessed
RecordProcessed(success, throttled, throwers) ==
  /\ processedRecords < MaxRecords
  /\ UpdateProgress([type |-> "record_processed", success |-> success],
                    status, throttled, throwers)
  /\ UNCHANGED <<totalRecords, observers, updateInterval>>

\* ProgressTracker.errorOccurred: reads error.message, error.name and
\* error.stack before updateProgress is called, which throws a TypeError on
\* null or undefined; any other value is recorded.
ErrorOccurred(error, throwers) ==
  /\ LogEntries < MaxLog
  /\ IF error = "null"
     THEN /\ raised' = TRUE
          /\ UNCHANGED <<status, totalRecords, processedRecords,
                         successfulRecords, failedRecords, currentPhase,
                         currentBatch, currentBatchSize, currentBatchProcessed,
                         errors, warnings, milestones, observers,
                         updateInterval, delivered>>
     ELSE /\ UpdateProgress([type |-> "error_occurred", error |-> error],
                            status, FALSE, throwers)
          /\ UNCHANGED <<totalRecords, observers, updateInterval>>

\* ProgressTracker.warningOccurred
WarningOccurred(throttled, throwers) ==
  /\ LogEntries < MaxLog
  /\ UpdateProgress([type |-> "warning_occurred"], status, throttled, throwers)
  /\ UNCHANGED <<totalRecords, observers, updateInterval>>

\* ProgressTracker.milestoneReached
MilestoneReached(throwers) ==
  /\ LogEntries < MaxLog
  /\ UpdateProgress([type |-> "milestone_reached"], status, FALSE, throwers)
  /\ UNCHANGED <<totalRecords, observers, updateInterval>>

\* ProgressTracker.sessionComplete
SessionComplete(success, throwers) ==
  /\ UpdateProgress([type |-> "session_complete", success |-> success],
                    IF success THEN "completed" ELSE "failed", FALSE, throwers)
  /\ updateInterval' = FALSE
  /\ UNCHANGED <<totalRecords, observers>>

\* ProgressTracker.pause
Pause ==
  /\ status' = "paused"
  /\ updateInterval' = FALSE
  /\ raised' = FALSE
  /\ UNCHANGED <<totalRecords, processedRecords, successfulRecords,
                 failedRecords, currentPhase, currentBatch, currentBatchSize,
                 currentBatchProcessed, errors, warnings, milestones,
                 observers, delivered>>

\* ProgressTracker.resume
Resume ==
  /\ status' = "active"
  /\ updateInterval' = TRUE
  /\ raised' = FALSE
  /\ UNCHANGED <<totalRecords, processedRecords, successfulRecords,
                 failedRecords, currentPhase, currentBatch, currentBatchSize,
                 currentBatchProcessed, errors, warnings, milestones,
                 observers, delivered>>

\* the setInterval callback of ProgressTracker.startPeriodicUpdates
PeriodicUpdate(throttled, throwers) ==
  /\ updateInterval
  /\ status = "active"
  /\ UpdateProgress([type |-> "statistics_update"], status, throttled, throwers)
  /\ UNCHANGED <<totalRecords, observers, updateInterval>>

\* ProgressTracker.shutdown
Shutdown ==
  /\ updateInterval' = FALSE
  /\ observers' = <<>>
  /\ status' = "shutdown"
  /\ raised' = FALSE
  /\ UNCHANGED <<totalRecords, processedRecords, successfulRecords,
                 failedRecords, currentPhase, currentBatch, currentBatchSize,
                 currentBatchProcessed, errors, warnings, milestones,
                 delivered>>

\* new ProgressTracker(): new ProgressState()
InitTracker ==
  /\ status = "idle"
  /\ totalRecords = 0
  /\ processedRecords = 0
  /\ successfulRecords = 0
  /\ failedRecords = 0
  /\ currentPhase = "initialization"
  /\ currentBatch = 0
  /\ currentBatchSize = 0
  /\ currentBatchProcessed = 0
  /\ errors = <<>>
  /\ warnings = 0
  /\ milestones = 0
  /\ observers = <<>>
  /\ updateInterval = FALSE
  /\ delivered = {}
  /\ raised = FALSE


(***************************************************************************)
(* Error classification (ErrorFactory and the error classes)               *)
(***************************************************************************)

NoError == [name |-> "none", status |-> 0, code |-> "none"]

\* ErrorFactory.fromHttpResponse
FromHttpResponse(st) ==
  IF st = 401 \/ st = 403
  THEN [name |-> "AuthenticationError", status |-> st, code |-> "AUTH_ERROR"]
  ELSE IF st = 429
  THEN [name |-> "RateLimitError", status |-> st, code |-> "RATE_LIMIT_ERROR"]
  ELSE [name |-> "ApiError", status |-> st, code |-> "API_ERROR"]

\* ErrorFactory.fromNetworkError
FromNetworkError(code) ==
  IF code = "ECONNREFUSED"
  THEN [name |-> "NetworkError", status |-> 0, code |-> "NETWORK_ERROR"]
  ELSE IF code = "ENOTFOUND"
  THEN [name |-> "NetworkError", status |-> 0, code |-> "NETWORK_ERROR"]
  ELSE IF code = "ETIMEDOUT"
  THEN [name |-> "TimeoutError", status |-> 0, code |-> "TIMEOUT_ERROR"]
  ELSE [name |-> "NetworkError", status |-> 0, code |-> "NETWORK_ERROR"]

\* new GraphQLError(errors): code is the extensions.code of the response error
GraphQLError(extCode) ==
  [name |-> "GraphQLError", status |-> 200, code |-> extCode]

\* HttpClient.convertError
ConvertError(outcome) ==
  IF outcome.kind = "response" THEN FromHttpResponse(outcome.status)
  ELSE FromNetworkError(outcome.code)

\* the error classes that define an isRetryable method
HasIsRetryable(err) ==
  err.name \in {"ApiError", "NetworkError", "AuthenticationError",
                "RateLimitError", "GraphQLError", "TimeoutError"}

\* isRetryable() of ApiError, NetworkError, AuthenticationError,
\* RateLimitError, GraphQLError and TimeoutError
ErrorIsRetryable(err) ==
  CASE err.name = "ApiError" -> err.status \in {429, 500, 502, 503, 504}
    [] err.name = "NetworkError" -> TRUE
    [] err.name = "AuthenticationError" -> FALSE
    [] err.name = "RateLimitError" -> TRUE
    [] err.name = "GraphQLError" -> err.code \in {"INTERNAL_ERROR", "TIMEOUT"}
    [] err.name = "TimeoutError" -> TRUE
    [] OTHER -> FALSE

\* Command.isRetryable
IsRetryable(err) ==
  IF err = NoError THEN FALSE
  ELSE IF HasIsRetryable(err) THEN ErrorIsRetryable(err)
  ELSE FALSE

\* HttpClient.isRetryableError
IsRetryableError(err) ==
  IF HasIsRetryable(err) THEN ErrorIsRetryable(err)
  ELSE err.code \in {"ECONNREFUSED", "ENOTFOUND", "ETIMEDOUT"}

(***************************************************************************)
(* One record through the retry loop: BatchProcessCommand                 *)
(* .executeCommandWithRetry / CommandExecutor.execute around               *)
(* SubscribeUserCommand.execute, LayloGraphQLClient.execute and            *)
(* HttpClient.request.  The steps are cut at the awaits of the code.       *)
(***************************************************************************)
VARIABLES
  pc,                  \* where the operation is: ready, acquire, inflight,
                       \* httpSleep, cmdSleep, done
  attempts,            \* Command.attempts
  lastError,           \* Command.lastError
  result,              \* CommandResult.success of the last execute: pending,
                       \* success, failed
  httpAttempts,        \* attempts (local of HttpClient.request)
  httpLastError,       \* lastError (local of HttpClient.request)
  retryAttempts,       \* HttpClient.config.retryAttempts
  retryFailedCommands, \* BatchProcessCommand.options.retryFailedCommands
  requestsSent,        \* requests sent to the remote endpoint for the record
  tokensConsumed,      \* completed RateLimiter.acquire() calls for the record
  fatalSeen,           \* a try has failed with a non-retryable error
  sentAfterFatal       \* requests sent after such a failure

retryVars == <<pc, attempts, lastError, result, httpAttempts, httpLastError,
               retryAttempts, retryFailedCommands, requestsSent,
               tokensConsumed, fatalSeen, sentAfterFatal>>

\* Command constructor: this.maxRetries = 3
maxRetries == 3
\* HttpClient constructor: retryAttempts: options.retryAttempts || 3
DefaultRetryAttempts == 3

\* what the remote endpoint (axios) answers to one request
Outcomes ==
  {[kind |-> "ok", status |-> 200, code |-> c] :
      c \in {"none", "INTERNAL_ERROR", "BAD_USER_INPUT"}}
  \cup {[kind |-> "response", status |-> s, code |-> "none"] :
      s \in {400, 401, 429, 503}}
  \cup {[kind |-> "network", status |-> 0, code |-> c] :
      c \in {"ECONNREFUSED", "ETIMEDOUT", "ECONNRESET"}}

CanRetryIgnoringError(n, err) == n < maxRetries

\* Command.canRetry
CanRetry(n, err) == n < maxRetries /\ IsRetryable(err)

\* SubscribeUserCommand.execute up to the await of rateLimiter.acquire() in
\* HttpClient.request
ExecuteCommand ==
  /\ attempts' = attempts + 1
  /\ httpAttempts' = 0
  /\ httpLastError' = NoError
  /\ result' = "pending"
  /\ pc' = "acquire"
  /\ UNCHANGED <<lastError, retryAttempts, retryFailedCommands, requestsSent,
                 tokensConsumed, fatalSeen, sentAfterFatal>>

\* executeCommandWithRetry / CommandExecutor.execute: first command.execute()
StartCommand ==
  /\ pc = "ready"
  /\ ExecuteCommand

\* one request goes out: attempts++ and the axios call of HttpClient.request
SendRequest ==
  /\ httpAttempts' = httpAttempts + 1
  /\ requestsSent' = requestsSent + 1
  /\ sentAfterFatal' = IF fatalSeen THEN sentAfterFatal + 1 ELSE sentAfterFatal
  /\ pc' = "inflight"

\* HttpClient.request: rateLimiter.acquire() returns, the while loop is entered
AcquireReturns ==
  /\ pc = "acquire"
  /\ httpAttempts < retryAttempts
  /\ tokensConsumed' = tokensConsumed + 1
  /\ SendRequest
  /\ UNCHANGED <<attempts, lastError, result, httpLastError, retryAttempts,
                 retryFailedCommands, fatalSeen>>

\* the catch of SubscribeUserCommand.execute and the loop condition of
\* executeCommandWithRetry (CommandExecutor.execute has no
\* retryFailedCommands option and behaves as with the option set)
CommandFails(err) ==
  /\ lastError' = err
  /\ result' = "failed"
  /\ pc' = IF CanRetry(attempts, err) /\ retryFailedCommands
           THEN "cmdSleep" ELSE "done"

\* the axios call of HttpClient.request settles
Respond(outcome) ==
  /\ pc = "inflight"
  /\ IF outcome.kind = "ok"
     THEN /\ httpLastError' = httpLastError
          /\ IF outcome.code = "none"
             THEN \* RequestResult success, GraphQLResult, CommandResult success
                  /\ result' = "success"
                  /\ pc' = "done"
                  /\ UNCHANGED <<lastError, fatalSeen>>
             ELSE \* LayloGraphQLClient.execute throws the GraphQLError
                  /\ CommandFails(GraphQLError(outcome.code))
                  /\ fatalSeen' =
                       (fatalSeen \/ ~IsRetryable(GraphQLError(outcome.code)))
     ELSE LET err == ConvertError(outcome) IN
          /\ httpLastError' = err
          /\ fatalSeen' = (fatalSeen \/ ~IsRetryableError(err))
          /\ IF httpAttempts >= retryAttempts \/ ~IsRetryableError(err)
             THEN \* break; LayloGraphQLClient.execute throws result.error
                  CommandFails(err)
             ELSE /\ pc' = "httpSleep"
                  /\ UNCHANGED <<lastError, result>>
  /\ UNCHANGED <<attempts, httpAttempts, retryAttempts, retryFailedCommands,
                 requestsSent, tokensConsumed, sentAfterFatal>>

\* HttpClient.request: the sleep before the next try ends and the loop sends
\* the next request
HttpSleepEnds ==
  /\ pc = "httpSleep"
  /\ httpAttempts < retryAttempts
  /\ SendRequest
  /\ UNCHANGED <<attempts, lastError, result, httpLastError, retryAttempts,
                 retryFailedCommands, tokensConsumed, fatalSeen>>

\* executeCommandWithRetry: command.sleep(retryDelay) ends, the loop condition
\* holds as it did before the sleep, command.execute() runs again
CommandSleepEnds ==
  /\ pc = "cmdSleep"
  /\ ExecuteCommand

\* a new command and HttpClient with the given configuration
NewCommand(configuredAttempts, retryOption) ==
  /\ pc = "ready"
  /\ attempts = 0
  /\ lastError = NoError
  /\ result = "pending"
  /\ httpAttempts = 0
  /\ httpLastError = NoError
  /\ retryAttempts = configuredAttempts
  /\ retryFailedCommands = retryOption
  /\ requestsSent = 0
  /\ tokensConsumed = 0
  /\ fatalSeen = FALSE
  /\ sentAfterFatal = 0

\* the retry loop is not running (the other specifications)
IdleRetry == NewCommand(DefaultRetryAttempts, TRUE)

(***************************************************************************)
(* Resuming a session: ResumeCommand.performResume and the import that is  *)
(* run again, ImportCsvUseCase.execute / importToLaylo.  The record source *)
(* holds the records 1..csvRecords in order.                               *)
(***************************************************************************)
VARIABLES
  csvRecords,          \* number of records of the ordered record source
  lastProcessedRecord, \* ProgressCheckpoint.sessionData.lastProcessedRecord
  sessionStatus,       \* status of the stored session
  resumePc,            \* pending, running (performResume), importing
                       \* (execute), done
  batchSize,           \* importOptions.batchSize
  batchIndex,          \* batchIndex of the loop of importToLaylo
  submitted,           \* indexes of the records submitted, in order
  resumeResult         \* none, success, failure (the CommandResult / result)

resumeVars == <<csvRecords, lastProcessedRecord, sessionStatus, resumePc,
                batchSize, batchIndex, submitted, resumeResult>>

MaxSource == 3       \* records of the source explored

\* ImportCsvUseCase has the methods execute, testApiConnection,
\* loadAndValidateData, processDeduplication, importToLaylo, completeImport,
\* createBatches, combineResultStatistics, updateStatistics,
\* generateSessionId, sleep, getStatistics and resetStatistics
ImportCsvUseCaseMethods ==
  {"execute", "testApiConnection", "loadAndValidateData",
   "processDeduplication", "importToLaylo", "completeImport", "createBatches",
   "combineResultStatistics", "updateStatistics", "generateSessionId", "sleep",
   "getStatistics", "resetStatistics"}

\* ResumeCommand.isResumable
IsResumable(st, processed, total) ==
  st \in {"paused", "failed", "interrupted"} /\ processed < total

\* ImportCsvUseCase.createBatches: batch b (from 0) holds the records
\* b*size+1 .. min((b+1)*size, n)
BatchRecords(b, size, n) ==
  {r \in 1..n : r > b * size /\ r <= (b + 1) * size}

\* the elements of a set of indexes in increasing order
RECURSIVE Ascending(_)
Ascending(S) ==
  IF S = {} THEN <<>>
  ELSE LET m == CHOOSE x \in S : \A y \in S : x <= y
       IN <<m>> \o Ascending(S \ {m})

\* ResumeCommand.performResume up to the call of importUseCase.resume:
\* updateSessionStatus(session.id, 'running')
PerformResume ==
  /\ resumePc = "pending"
  /\ IsResumable(sessionStatus, lastProcessedRecord, csvRecords)
  /\ sessionStatus' = "running"
  /\ resumePc' = "running"
  /\ UNCHANGED <<csvRecords, lastProcessedRecord, batchSize, batchIndex,
                 submitted, resumeResult>>

\* ResumeCommand.performResume: importUseCase.resume(resumeOptions).
\* ImportCsvUseCase defines no method resume, the call throws a TypeError,
\* the catch marks the session failed and returns CommandResult.failure.
CallResume ==
  /\ resumePc = "running"
  /\ IF "resume" \in ImportCsvUseCaseMethods
     THEN /\ resumePc' = "importing"
          /\ UNCHANGED <<sessionStatus, resumeResult>>
     ELSE /\ sessionStatus' = "failed"
          /\ resumeResult' = "failure"
          /\ resumePc' = "done"
  /\ UNCHANGED <<csvRecords, lastProcessedRecord, batchSize, batchIndex,
                 submitted>>

\* the import is run again on the same source: ImportCsvUseCase.execute up to
\* the batch loop of importToLaylo (readAll reads every record of the file,
\* no option carries a start index)
ExecuteImport ==
  /\ resumePc = "pending"
  /\ resumePc' = "importing"
  /\ batchIndex' = 0
  /\ UNCHANGED <<csvRecords, lastProcessedRecord, sessionStatus, batchSize,
                 submitted, resumeResult>>

\* ImportCsvUseCase.importToLaylo: one turn of the batch loop
\* (subscribeUsersBatch of the next batch)
SubmitBatch ==
  /\ resumePc = "importing"
  /\ batchIndex * batchSize < csvRecords
  /\ submitted' =
       submitted \o Ascending(BatchRecords(batchIndex, batchSize, csvRecords))
  /\ batchIndex' = batchIndex + 1
  /\ UNCHANGED <<csvRecords, lastProcessedRecord, sessionStatus, resumePc,
                 batchSize, resumeResult>>

\* ImportCsvUseCase.importToLaylo returns, completeImport
CompleteImport ==
  /\ resumePc = "importing"
  /\ batchIndex * batchSize >= csvRecords
  /\ resumePc' = "done"
  /\ resumeResult' = "success"
  /\ sessionStatus' = "completed"
  /\ UNCHANGED <<csvRecords, lastProcessedRecord, batchSize, batchIndex,
                 submitted>>

\* an interrupted session with a valid checkpoint at record k of n
StoredSession(n, k, st, size) ==
  /\ csvRecords = n
  /\ lastProcessedRecord = k
  /\ sessionStatus = st
  /\ resumePc = "pending"
  /\ batchSize = size
  /\ batchIndex = 0
  /\ submitted = <<>>
  /\ resumeResult = "none"

\* no session is being resumed (the other specifications)
IdleResume == StoredSession(1, 0, "paused", 1)

(***************************************************************************)
(* BatchProcessCommand.processBatch: processSequentially and               *)
(* processConcurrently over the commands 1..nCommands, each run by         *)
(* executeCommandWithRetry, and the Semaphore.  command.execute() is one   *)
(* step here: it returns success, a retryable failure or a fatal failure.  *)
(***************************************************************************)
VARIABLES
  nCommands,    \* this.commands.length
  concurrency,  \* this.options.concurrency
  failFast,     \* this.options.failFast
  batchPc,      \* ready, running, returned
  opState,      \* per command: pending, waiting (in Semaphore.waiting),
                \* admitted (acquire resolved), executing, sleeping, done
  opAttempts,   \* per command: Command.attempts
  opResult,     \* per command: none, success, failed (final CommandResult)
  results,      \* the array processBatch returns: [op, success] entries
  completed,    \* the commands in the order in which they finished
  count,        \* Semaphore.count
  waiting,      \* Semaphore.waiting
  seqIndex      \* i of the loop of processSequentially

batchVars == <<nCommands, concurrency, failFast, batchPc, opState, opAttempts,
               opResult, results, completed, count, waiting, seqIndex>>

MaxSeqCommands == 5    \* commands of a sequential batch explored
MaxCommands == 3       \* commands of a concurrent batch explored
MaxConcurrency == 2    \* concurrency explored

Ops == 1..nCommands

ExecuteOutcomes == {"success", "retryable", "fatal"}

\* commands between Semaphore.acquire and Semaphore.release
InFlight == {op \in Ops : opState[op] \in {"admitted", "executing", "sleeping"}}

SemaphoreHasPermitOff(c) == c >= 0

\* Semaphore.acquire: if (this.count > 0)
SemaphoreHasPermit(c) == c > 0

\* Semaphore.acquire called by command op on semaphore state sem
SemaphoreAcquire(sem, op) ==
  IF SemaphoreHasPermit(sem.count)
  THEN [count |-> sem.count - 1, waiting |-> sem.waiting,
        admitted |-> sem.admitted \cup {op}]
  ELSE [count |-> sem.count, waiting |-> Append(sem.waiting, op),
        admitted |-> sem.admitted]

\* this.commands.map(async ...) of processConcurrently: the commands call
\* semaphore.acquire() one after the other, in index order
RECURSIVE AcquireInOrder(_, _, _)
AcquireInOrder(sem, op, n) ==
  IF op > n THEN sem
  ELSE AcquireInOrder(SemaphoreAcquire(sem, op), op + 1, n)

BreaksNever(success) == FALSE

\* processSequentially: if (this.options.failFast && !result.success) break
Breaks(success) == failFast /\ ~success

PromiseAllByCompletion(res, order) ==
  [k \in 1..Len(order) |->
     [op |-> order[k], success |-> (res[order[k]] = "success")]]

\* Promise.all(promises): the outcomes in the order of the promises
PromiseAll(res, order) ==
  [op \in 1..Len(order) |-> [op |-> op, success |-> (res[op] = "success")]]

\* command.execute() is called: this.attempts++
BeginExecute(op) ==
  /\ opState' = [opState EXCEPT ![op] = "executing"]
  /\ opAttempts' = [opAttempts EXCEPT ![op] = @ + 1]

\* BatchProcessCommand.processBatch is called
StartBatch ==
  /\ batchPc = "ready"
  /\ batchPc' = "running"
  /\ IF concurrency = 1
     THEN \* processSequentially: the first command is executed
          /\ seqIndex' = 1
          /\ BeginExecute(1)
          /\ UNCHANGED <<count, waiting>>
     ELSE \* processConcurrently: new Semaphore(concurrency), every command
          \* calls acquire()
          LET sem == AcquireInOrder([count |-> concurrency, waiting |-> <<>>,
                                     admitted |-> {}], 1, nCommands)
          IN /\ count' = sem.count
             /\ waiting' = sem.waiting
             /\ opState' = [op \in Ops |-> IF op \in sem.admitted
                                           THEN "admitted" ELSE "waiting"]
             /\ UNCHANGED <<opAttempts, seqIndex>>
  /\ UNCHANGED <<nCommands, concurrency, failFast, opResult, results,
                 completed>>

\* processConcurrently: the await of semaphore.acquire() is over, the command
\* enters executeCommandWithRetry
Admitted(op) ==
  /\ batchPc = "running"
  /\ opState[op] = "admitted"
  /\ BeginExecute(op)
  /\ UNCHANGED <<nCommands, concurrency, failFast, batchPc, opResult, results,
                 completed, count, waiting, seqIndex>>

\* executeCommandWithRetry has its final result for op in sequential mode:
\* results.push(result), the fail-fast test, the next turn of the loop
FinishSequential(op, success) ==
  /\ opResult' = [opResult EXCEPT ![op] = IF success THEN "success" ELSE "failed"]
  /\ results' = Append(results, [op |-> op, success |-> success])
  /\ completed' = Append(completed, op)
  /\ IF Breaks(success) \/ op = nCommands
     THEN /\ batchPc' = "returned"
          /\ opState' = [opState EXCEPT ![op] = "done"]
          /\ UNCHANGED <<opAttempts, seqIndex>>
     ELSE /\ seqIndex' = op + 1
          /\ opState' = [opState EXCEPT ![op] = "done", ![op + 1] = "executing"]
          /\ opAttempts' = [opAttempts EXCEPT ![op + 1] = @ + 1]
          /\ UNCHANGED batchPc
  /\ UNCHANGED <<count, waiting>>

FinishWithoutReleaseOnFailure(op, success) ==
  LET res == [opResult EXCEPT ![op] = IF success THEN "success" ELSE "failed"]
      order == Append(completed, op)
  IN /\ opResult' = res
     /\ completed' = order
     /\ IF ~success
        THEN /\ opState' = [opState EXCEPT ![op] = "done"]
             /\ UNCHANGED <<count, waiting>>
        ELSE IF Len(waiting) > 0
        THEN /\ waiting' = Tail(waiting)
             /\ opState' = [opState EXCEPT ![op] = "done",
                                           ![Head(waiting)] = "admitted"]
             /\ UNCHANGED count
        ELSE /\ count' = count + 1
             /\ opState' = [opState EXCEPT ![op] = "done"]
             /\ UNCHANGED waiting
     /\ IF Len(order) = nCommands
        THEN /\ results' = PromiseAll(res, order)
             /\ batchPc' = "returned"
        ELSE UNCHANGED <<results, batchPc>>
     /\ UNCHANGED <<opAttempts, seqIndex>>

\* executeCommandWithRetry has its final result for op in concurrent mode:
\* finally { semaphore.release() }, the promise of op settles, and
\* Promise.all settles with the last of them
FinishConcurrent(op, success) ==
  LET res == [opResult EXCEPT ![op] = IF success THEN "success" ELSE "failed"]
      order == Append(completed, op)
  IN /\ opResult' = res
     /\ completed' = order
     /\ IF Len(waiting) > 0
        THEN \* Semaphore.release: const resolve = this.waiting.shift(); resolve()
             /\ waiting' = Tail(waiting)
             /\ opState' = [opState EXCEPT ![op] = "done",
                                           ![Head(waiting)] = "admitted"]
             /\ UNCHANGED count
        ELSE \* Semaphore.release: this.count++
             /\ count' = count + 1
             /\ opState' = [opState EXCEPT ![op] = "done"]
             /\ UNCHANGED waiting
     /\ IF Len(order) = nCommands
        THEN /\ results' = PromiseAll(res, order)
             /\ batchPc' = "returned"
        ELSE UNCHANGED <<results, batchPc>>
     /\ UNCHANGED <<opAttempts, seqIndex>>

\* command.execute() of op returns inside executeCommandWithRetry
ExecuteReturns(op, outcome) ==
  /\ batchPc = "running"
  /\ opState[op] = "executing"
  /\ IF outcome # "success" /\ opAttempts[op] < maxRetries
        /\ outcome = "retryable" /\ retryFailedCommands
     THEN \* canRetry: await command.sleep(retryDelay)
          /\ opState' = [opState EXCEPT ![op] = "sleeping"]
          /\ UNCHANGED <<batchPc, opAttempts, opResult, results, completed,
                         count, waiting, seqIndex>>
     ELSE IF concurrency = 1
          THEN FinishSequential(op, outcome = "success")
          ELSE FinishConcurrent(op, outcome = "success")
  /\ UNCHANGED <<nCommands, concurrency, failFast>>

\* executeCommandWithRetry: the sleep is over, the loop runs command.execute()
RetrySleepEnds(op) ==
  /\ batchPc = "running"
  /\ opState[op] = "sleeping"
  /\ BeginExecute(op)
  /\ UNCHANGED <<nCommands, concurrency, failFast, batchPc, opResult, results,
                 completed, count, waiting, seqIndex>>

\* a new BatchProcessCommand(commands, options) with n commands
NewBatch(n, c, ff) ==
  /\ nCommands = n
  /\ concurrency = c
  /\ failFast = ff
  /\ batchPc = "ready"
  /\ opState = [op \in 1..n |-> "pending"]
  /\ opAttempts = [op \in 1..n |-> 0]
  /\ opResult = [op \in 1..n |-> "none"]
  /\ results = <<>>
  /\ completed = <<>>
  /\ count = c
  /\ waiting = <<>>
  /\ seqIndex = 0

\* no batch is running (the other specifications)
IdleBatch == NewBatch(1, 1, FALSE)

(***************************************************************************)
(* RateLimiter (token bucket).  Time is in milliseconds, tokens are in     *)
(* thousandths of a token, so that timePassed * refillRate is exact.       *)
(* Date.now() is taken to be non-decreasing.  JavaScript runs one callback *)
(* at a time: a call is atomic up to its await.                            *)
(***************************************************************************)
VARIABLES
  now,         \* Date.now(), relative to the construction of the limiter
  tokens,      \* RateLimiter.tokens (thousandths)
  maxTokens,   \* RateLimiter.maxTokens (thousandths)
  refillRate,  \* RateLimiter.refillRate (tokens per second)
  lastRefill,  \* RateLimiter.lastRefill
  nCallers,    \* number of execution paths that call the limiter
  callerPc,    \* per caller: idle, sleeping (inside acquire)
  wakeAt,      \* per caller: when its setTimeout is due
  sleeps,      \* per caller: sleeps of the acquire() in progress
  reported,    \* last value returned by getAvailableTokens()
  acquireLog,  \* one entry per acquire() that returned
  emptiedAt,   \* when the last acquire() left the bucket at 0, or -1
  prompt       \* no caller has idled and no timer has fired late so far

limiterVars == <<now, tokens, maxTokens, refillRate, lastRefill, nCallers,
                 callerPc, wakeAt, sleeps, reported, acquireLog, emptiedAt,
                 prompt>>

MaxTicks == 4      \* clock advances explored
MaxAcquires == 3   \* acquire() calls that return
MaxCallers == 2    \* concurrent callers explored
MaxBurst == 2      \* burstSize explored
MaxRate == 2       \* requestsPerSecond explored

\* one thousand: milliseconds per second, thousandths per token
Milli == 1000

\* the clock advances in steps of half a second
TickMs == Milli \div 2

Callers == 1..nCallers

Min(a, b) == IF a < b THEN a ELSE b

RefillUncapped(tok, last, t) == tok + (t - last) * refillRate

\* RateLimiter.refillTokens: the new value of this.tokens at Date.now() = t
RefillTokens(tok, last, t) == Min(maxTokens, tok + (t - last) * refillRate)

HasSomeToken(tok) == tok > 0

\* RateLimiter.acquire: if (this.tokens >= 1)
HasWholeToken(tok) == tok >= Milli

\* RateLimiter.acquire: const waitTime = (1 / this.refillRate) * 1000
WaitTime == Milli \div refillRate

\* the body of RateLimiter.acquire, run by caller c at the call and again
\* after every sleep: refillTokens(), then take a token or sleep
AcquireBody(c) ==
  LET filled == RefillTokens(tokens, lastRefill, now)
  IN /\ lastRefill' = now
     /\ IF HasWholeToken(filled)
        THEN /\ tokens' = filled - Milli
             /\ callerPc' = [callerPc EXCEPT ![c] = "idle"]
             /\ sleeps' = [sleeps EXCEPT ![c] = 0]
             /\ acquireLog' = Append(acquireLog,
                  [at |-> now, slept |-> sleeps[c], had |-> filled,
                   sinceEmpty |-> IF emptiedAt = -1 THEN -1
                                  ELSE now - emptiedAt])
             /\ emptiedAt' = IF filled - Milli = 0 THEN now ELSE -1
             /\ UNCHANGED wakeAt
        ELSE /\ tokens' = filled
             /\ callerPc' = [callerPc EXCEPT ![c] = "sleeping"]
             /\ wakeAt' = [wakeAt EXCEPT ![c] = now + WaitTime]
             /\ sleeps' = [sleeps EXCEPT ![c] = @ + 1]
             /\ UNCHANGED <<acquireLog, emptiedAt>>
     /\ UNCHANGED <<now, maxTokens, refillRate, nCallers, reported, prompt>>

\* caller c calls RateLimiter.acquire()
Acquire(c) ==
  /\ callerPc[c] = "idle"
  /\ Len(acquireLog) + Cardinality({d \in Callers : callerPc[d] = "sleeping"})
       < MaxAcquires
  /\ AcquireBody(c)

\* the setTimeout of caller c fires: return this.acquire()
AcquireSleepEnds(c) ==
  /\ callerPc[c] = "sleeping"
  /\ now >= wakeAt[c]
  /\ AcquireBody(c)

\* RateLimiter.getAvailableTokens
GetAvailableTokens ==
  LET filled == RefillTokens(tokens, lastRefill, now)
  IN /\ tokens' = filled
     /\ lastRefill' = now
     /\ reported' = filled \div Milli
     /\ UNCHANGED <<now, maxTokens, refillRate, nCallers, callerPc, wakeAt,
                    sleeps, acquireLog, emptiedAt, prompt>>

\* time passes
ClockAdvances ==
  /\ now < MaxTicks * TickMs
  /\ now' = now + TickMs
  /\ prompt' = (prompt /\ \A c \in Callers :
                  callerPc[c] = "sleeping" /\ now + TickMs <= wakeAt[c])
  /\ UNCHANGED <<tokens, maxTokens, refillRate, lastRefill, nCallers,
                 callerPc, wakeAt, sleeps, reported, acquireLog, emptiedAt>>

\* new RateLimiter(requestsPerSecond, burstSize), used by n callers
NewRateLimiter(requestsPerSecond, burstSize, n) ==
  /\ now = 0
  /\ tokens = burstSize * Milli
  /\ maxTokens = burstSize * Milli
  /\ refillRate = requestsPerSecond
  /\ lastRefill = 0
  /\ nCallers = n
  /\ callerPc = [c \in 1..n |-> "idle"]
  /\ wakeAt = [c \in 1..n |-> 0]
  /\ sleeps = [c \in 1..n |-> 0]
  /\ reported = burstSize
  /\ acquireLog = <<>>
  /\ emptiedAt = -1
  /\ prompt = TRUE

\* the limiter is not used (the other specifications)
IdleLimiter == NewRateLimiter(1, 1, 1)

(***************************************************************************)
(* DeduplicationService and its key strategies.  A string is a sequence    *)
(* of one-character strings; a subscriber is referred to by its position   *)
(* in the input array (the same objects are passed again on a second run). *)
(***************************************************************************)
VARIABLES
  strategy,         \* DeduplicationService.strategy: email, emailPhone, strict
  subscribers,      \* the array given to processBatch
  seenRecords,      \* DeduplicationService.seenRecords: key -> [subscriber, count]
  duplicateGroups,  \* DeduplicationService.duplicateGroups: key -> subscribers
  statistics,       \* DeduplicationService.statistics
  batchResult,      \* what the last processBatch returned
  previousResult,   \* what the processBatch before it returned
  runs,             \* processBatch calls so far
  fresh             \* the last processBatch started on an empty service

dedupVars == <<strategy, subscribers, seenRecords, duplicateGroups, statistics,
               batchResult, previousResult, runs, fresh>>

MaxInput == 3   \* length of the input arrays explored
MaxRuns == 2    \* processBatch calls explored

Strategies == {"email", "emailPhone", "strict"}

EmptyMap == [k \in {} |-> 0]

\* String.prototype.toLowerCase on one character
LowerChar(ch) ==
  CASE ch = "A" -> "a"
    [] ch = "B" -> "b"
    [] ch = "N" -> "n"
    [] OTHER -> ch

\* String.prototype.toLowerCase
ToLowerCase(str) == [k \in 1..Len(str) |-> LowerChar(str[k])]

\* String.prototype.trim
RECURSIVE Trim(_)
Trim(str) ==
  IF str = <<>> THEN str
  ELSE IF Head(str) = " " THEN Trim(Tail(str))
  ELSE IF str[Len(str)] = " " THEN Trim(SubSeq(str, 1, Len(str) - 1))
  ELSE str

\* new Subscriber(data)
Subscriber(email, phoneNumber, firstName) ==
  [isSubscriber |-> TRUE, email |-> email, phoneNumber |-> phoneNumber,
   firstName |-> firstName, lastName |-> <<>>]

\* an object that is not a Subscriber instance
NotASubscriber ==
  [isSubscriber |-> FALSE, email |-> <<>>, phoneNumber |-> <<>>,
   firstName |-> <<>>, lastName |-> <<>>]

\* the ternaries of generateKey: field ? field.toLowerCase().trim() : ''
LowerTrimmed(field) == IF field = <<>> THEN <<>> ELSE Trim(ToLowerCase(field))

\* field ? field.trim() : ''
Trimmed(field) == IF field = <<>> THEN <<>> ELSE Trim(field)

\* EmailDeduplicationStrategy / EmailPhoneDeduplicationStrategy /
\* StrictDeduplicationStrategy .generateKey
GenerateKey(strat, sub) ==
  CASE strat = "email" -> LowerTrimmed(sub.email)
    [] strat = "emailPhone" ->
         LowerTrimmed(sub.email) \o <<"|">> \o Trimmed(sub.phoneNumber)
    [] strat = "strict" ->
         LowerTrimmed(sub.email) \o <<"|">> \o Trimmed(sub.phoneNumber)
           \o <<"|">> \o LowerTrimmed(sub.firstName)
           \o <<"|">> \o LowerTrimmed(sub.lastName)

\* checkDuplicate: if (!key || key.trim() === '')
KeyIsEmpty(key) == key = <<>> \/ Trim(key) = <<>>

SeenAfterDuplicateOverwritten(seen, key, idx) ==
  [seen EXCEPT ![key] = [subscriber |-> idx, count |-> @.count + 1]]

\* checkDuplicate: existingRecord.count++
SeenAfterDuplicate(seen, key, idx) ==
  [seen EXCEPT ![key] = [subscriber |-> @.subscriber, count |-> @.count + 1]]

\* DeduplicationService.checkDuplicate on the service state svc for the
\* subscriber at position idx: the new service state and the DuplicateResult
CheckDuplicate(svc, subs, idx) ==
  LET key == GenerateKey(svc.strategy, subs[idx])
      counted == [svc.statistics EXCEPT !.totalRecords = @ + 1]
  IN IF KeyIsEmpty(key)
     THEN [svc |-> [svc EXCEPT !.statistics =
                      [counted EXCEPT !.uniqueRecords = @ + 1]],
           isDuplicate |-> FALSE, originalRecord |-> 0, duplicateCount |-> 0]
     ELSE IF key \in DOMAIN svc.seenRecords
     THEN LET seen == SeenAfterDuplicate(svc.seenRecords, key, idx)
              group == IF key \in DOMAIN svc.duplicateGroups
                       THEN svc.duplicateGroups[key] ELSE <<>>
          IN [svc |-> [svc EXCEPT
                 !.seenRecords = seen,
                 !.duplicateGroups =
                    (key :> Append(group, idx)) @@ svc.duplicateGroups,
                 !.statistics = [counted EXCEPT !.duplicateRecords = @ + 1]],
              isDuplicate |-> TRUE,
              originalRecord |-> svc.seenRecords[key].subscriber,
              duplicateCount |-> seen[key].count]
     ELSE [svc |-> [svc EXCEPT
              !.seenRecords =
                 (key :> [subscriber |-> idx, count |-> 1]) @@ svc.seenRecords,
              !.statistics = [counted EXCEPT !.uniqueRecords = @ + 1]],
           isDuplicate |-> FALSE, originalRecord |-> 0, duplicateCount |-> 0]

ResultsAfterInBoth(res, idx, dr) ==
  [res EXCEPT
     !.unique = Append(@, idx),
     !.duplicates = IF dr.isDuplicate
                    THEN Append(@, [subscriber |-> idx,
                                    originalRecord |-> dr.originalRecord,
                                    duplicateCount |-> dr.duplicateCount])
                    ELSE @]

\* processBatch: results.duplicates.push(...) or results.unique.push(...)
ResultsAfter(res, idx, dr) ==
  IF dr.isDuplicate
  THEN [res EXCEPT !.duplicates =
          Append(@, [subscriber |-> idx, originalRecord |-> dr.originalRecord,
                     duplicateCount |-> dr.duplicateCount])]
  ELSE [res EXCEPT !.unique = Append(@, idx)]

\* the for loop of processBatch from position idx on
RECURSIVE ProcessFrom(_, _, _, _)
ProcessFrom(svc, res, subs, idx) ==
  IF idx > Len(subs) THEN [svc |-> svc, results |-> res]
  ELSE IF ~subs[idx].isSubscriber
  THEN \* checkDuplicate throws, the catch records the error
       ProcessFrom(svc, [res EXCEPT !.errors = Append(@, idx)], subs, idx + 1)
  ELSE LET dr == CheckDuplicate(svc, subs, idx)
       IN ProcessFrom(dr.svc, ResultsAfter(res, idx, dr), subs, idx + 1)

NoResults == [unique |-> <<>>, duplicates |-> <<>>, errors |-> <<>>]

NoStatistics ==
  [totalRecords |-> 0, uniqueRecords |-> 0, duplicateRecords |-> 0,
   duplicateGroups |-> 0]

\* DeduplicationService.processBatch(subscribers), as called by
\* ImportCsvUseCase.processDeduplication on every execute
ProcessBatch ==
  /\ runs < MaxRuns
  /\ LET out == ProcessFrom([strategy |-> strategy, seenRecords |-> seenRecords,
                             duplicateGroups |-> duplicateGroups,
                             statistics |-> statistics],
                            NoResults, subscribers, 1)
     IN /\ seenRecords' = out.svc.seenRecords
        /\ duplicateGroups' = out.svc.duplicateGroups
        /\ statistics' = [out.svc.statistics EXCEPT !.duplicateGroups =
                            Cardinality(DOMAIN out.svc.duplicateGroups)]
        /\ batchResult' = out.results
  /\ previousResult' = batchResult
  /\ runs' = runs + 1
  /\ fresh' = (seenRecords = EmptyMap /\ duplicateGroups = EmptyMap)
  /\ UNCHANGED <<strategy, subscribers>>

\* DeduplicationService.reset
Reset ==
  /\ seenRecords # EmptyMap
  /\ seenRecords' = EmptyMap
  /\ duplicateGroups' = EmptyMap
  /\ statistics' = NoStatistics
  /\ UNCHANGED <<strategy, subscribers, batchResult, previousResult, runs,
                 fresh>>

\* the subscribers the input arrays are made of
InputRecords ==
  { Subscriber(<<"a">>, <<>>, <<>>), Subscriber(<<" ", "A">>, <<>>, <<>>),
    Subscriber(<<"b">>, <<>>, <<>>), Subscriber(<<>>, <<>>, <<>>),
    Subscriber(<<" ">>, <<" ">>, <<>>), Subscriber(<<"a">>, <<"1">>, <<>>),
    Subscriber(<<>>, <<"1">>, <<>>), Subscriber(<<"a">>, <<>>, <<"N">>),
    NotASubscriber }

\* 10 records, the first and the seventh share an email up to case and blanks
TenRecords ==
  << Subscriber(<<"a">>, <<>>, <<>>), Subscriber(<<"b">>, <<>>, <<>>),
     Subscriber(<<"c">>, <<>>, <<>>), Subscriber(<<"d">>, <<>>, <<>>),
     Subscriber(<<"e">>, <<>>, <<>>), Subscriber(<<"f">>, <<>>, <<>>),
     Subscriber(<<"A", " ">>, <<>>, <<>>), Subscriber(<<"g">>, <<>>, <<>>),
     Subscriber(<<"h">>, <<>>, <<>>), Subscriber(<<"i">>, <<>>, <<>>) >>

Inputs ==
  UNION {[1..n -> InputRecords] : n \in 0..MaxInput} \cup {TenRecords}

\* new DeduplicationService(strategy), about to be given subs
NewDeduplicationService(strat, subs) ==
  /\ strategy = strat
  /\ subscribers = subs
  /\ seenRecords = EmptyMap
  /\ duplicateGroups = EmptyMap
  /\ statistics = NoStatistics
  /\ batchResult = NoResults
  /\ previousResult = NoResults
  /\ runs = 0
  /\ fresh = TRUE

\* no deduplication is running (the other specifications)
IdleDedup == NewDeduplicationService("email", <<>>)

(***************************************************************************)
(* ProgressPersistence and ProgressCheckpoint for one session directory.   *)
(* saveCheckpoint is asynchronous: it builds the checkpoint at once, then  *)
(* awaits the write, the listing and the deletions, and other callbacks    *)
(* run in between.  Two saves can be in progress: one called directly and  *)
(* one started by the auto-save timer.                                     *)
(***************************************************************************)
VARIABLES
  clock,            \* Date.now() (milliseconds), non-decreasing
  files,            \* the checkpoint files of the session: id -> checkpoint
  maxCheckpoints,   \* options.maxCheckpoints
  enableAutoSave,   \* options.enableAutoSave
  progressTracker,  \* ProgressPersistence.progressTracker: null or tracker
  autoSaveTimer,    \* ProgressPersistence.autoSaveTimer is set
  lastCheckpoint,   \* id of ProgressPersistence.lastCheckpoint, -1 for null
  savePc,           \* per save: idle, built, written, listed
  saveCheckpointOf, \* per save: the ProgressCheckpoint it builds
  toDelete,         \* per save: the ids cleanupOldCheckpoints will delete
  findResult        \* the last findResumableSessions: none (not called),
                    \* absent, resumable (returned, the session is still
                    \* running), finished (returned, the session is over)

persistVars == <<clock, files, maxCheckpoints, enableAutoSave, progressTracker,
                 autoSaveTimer, lastCheckpoint, savePc, saveCheckpointOf,
                 toDelete, findResult>>

MaxClock == 2   \* milliseconds of Date.now() explored
MaxKeep == 2    \* maxCheckpoints explored

\* the direct caller of saveCheckpoint and the setInterval callback
Savers == {"caller", "timer"}

NoCheckpoint ==
  [id |-> -1, timestamp |-> -1, status |-> "idle", processedRecords |-> 0,
   totalRecords |-> 0, auto |-> FALSE]

\* new ProgressCheckpoint(progressState): id = `checkpoint_${Date.now()}`
ProgressCheckpoint(auto) ==
  [id |-> clock, timestamp |-> clock, status |-> status,
   processedRecords |-> processedRecords, totalRecords |-> totalRecords,
   auto |-> auto]

\* ProgressCheckpoint.isValid
IsValid(cp) ==
  /\ cp.status # "completed"
  /\ cp.status # "failed"
  /\ cp.processedRecords < cp.totalRecords

\* listCheckpoints: the checkpoints stored for the session
ListCheckpoints == {files[id] : id \in DOMAIN files}

\* cleanupOldCheckpoints: sort oldest first, slice(0, length - maxCheckpoints)
OldestBeyond(cps, keep) ==
  {cp \in cps :
     Cardinality({other \in cps : other.timestamp > cp.timestamp}) >= keep}

\* loadLatestCheckpoint: sort newest first, take the first
LatestCheckpoint(cps) ==
  CHOOSE cp \in cps : \A other \in cps : other.timestamp <= cp.timestamp

\* the part of a function outside the keys in ids
Without(f, ids) == [k \in (DOMAIN f) \ ids |-> f[k]]

\* Date.now() moves on
DateNowAdvances ==
  /\ clock < MaxClock
  /\ clock' = clock + 1
  /\ UNCHANGED <<files, maxCheckpoints, enableAutoSave, progressTracker,
                 autoSaveTimer, lastCheckpoint, savePc, saveCheckpointOf,
                 toDelete, findResult>>

\* ProgressPersistence.attachToTracker (startAutoSave if enabled)
AttachToTracker ==
  /\ progressTracker = "null"
  /\ progressTracker' = "tracker"
  /\ autoSaveTimer' = enableAutoSave
  /\ UNCHANGED <<clock, files, maxCheckpoints, enableAutoSave, lastCheckpoint,
                 savePc, saveCheckpointOf, toDelete, findResult>>

\* ProgressPersistence.detachFromTracker: stopAutoSave, forget the tracker
DetachFromTracker ==
  /\ progressTracker = "tracker"
  /\ autoSaveTimer' = FALSE
  /\ progressTracker' = "null"
  /\ UNCHANGED <<clock, files, maxCheckpoints, enableAutoSave, lastCheckpoint,
                 savePc, saveCheckpointOf, toDelete, findResult>>

\* ProgressPersistence.shutdown: stopAutoSave, detachFromTracker
ShutdownPersistence ==
  /\ progressTracker = "tracker"
  /\ autoSaveTimer' = FALSE
  /\ progressTracker' = "null"
  /\ UNCHANGED <<clock, files, maxCheckpoints, enableAutoSave, lastCheckpoint,
                 savePc, saveCheckpointOf, toDelete, findResult>>

\* saveCheckpoint up to its first await: new ProgressCheckpoint(...)
BuildCheckpoint(p, auto) ==
  /\ savePc[p] = "idle"
  /\ savePc' = [savePc EXCEPT ![p] = "built"]
  /\ saveCheckpointOf' = [saveCheckpointOf EXCEPT ![p] = ProgressCheckpoint(auto)]
  /\ UNCHANGED <<clock, files, maxCheckpoints, enableAutoSave, progressTracker,
                 autoSaveTimer, lastCheckpoint, toDelete, findResult>>

\* saveCheckpoint(tracker.state, ...) is called directly
SaveCheckpoint ==
  /\ status # "idle"
  /\ BuildCheckpoint("caller", FALSE)

\* the setInterval callback of startAutoSave
AutoSaveFires ==
  /\ autoSaveTimer
  /\ progressTracker # "null" /\ status = "active"
  /\ BuildCheckpoint("timer", TRUE)

\* saveCheckpoint: await fs.writeFile(filePath, ...); this.lastCheckpoint = ...
WriteFile(p) ==
  /\ savePc[p] = "built"
  /\ LET cp == saveCheckpointOf[p]
     IN /\ files' = (cp.id :> cp) @@ files
        /\ lastCheckpoint' = cp.id
  /\ savePc' = [savePc EXCEPT ![p] = "written"]
  /\ UNCHANGED <<clock, maxCheckpoints, enableAutoSave, progressTracker,
                 autoSaveTimer, saveCheckpointOf, toDelete, findResult>>

\* cleanupOldCheckpoints: listCheckpoints, sort, slice
ListForCleanup(p) ==
  /\ savePc[p] = "written"
  /\ toDelete' = [toDelete EXCEPT ![p] =
       IF Cardinality(ListCheckpoints) > maxCheckpoints
       THEN {cp.id : cp \in OldestBeyond(ListCheckpoints, maxCheckpoints)}
       ELSE {}]
  /\ savePc' = [savePc EXCEPT ![p] = "listed"]
  /\ UNCHANGED <<clock, files, maxCheckpoints, enableAutoSave, progressTracker,
                 autoSaveTimer, lastCheckpoint, saveCheckpointOf, findResult>>

\* cleanupOldCheckpoints: the deleteCheckpoint calls; saveCheckpoint returns
DeleteOld(p) ==
  /\ savePc[p] = "listed"
  /\ files' = Without(files, toDelete[p])
  /\ toDelete' = [toDelete EXCEPT ![p] = {}]
  /\ savePc' = [savePc EXCEPT ![p] = "idle"]
  /\ saveCheckpointOf' = [saveCheckpointOf EXCEPT ![p] = NoCheckpoint]
  /\ UNCHANGED <<clock, maxCheckpoints, enableAutoSave, progressTracker,
                 autoSaveTimer, lastCheckpoint, findResult>>

\* ProgressPersistence.findResumableSessions for the session directory
FindResumableSessions ==
  /\ findResult' =
       IF files = EmptyMap \/ ~IsValid(LatestCheckpoint(ListCheckpoints))
       THEN "absent"
       ELSE IF status \in {"completed", "failed"}
               \/ processedRecords >= totalRecords
       THEN "finished"
       ELSE "resumable"
  /\ UNCHANGED <<clock, files, maxCheckpoints, enableAutoSave, progressTracker,
                 autoSaveTimer, lastCheckpoint, savePc, saveCheckpointOf,
                 toDelete>>

\* new ProgressPersistence(options)
NewProgressPersistence(keep, autoSave) ==
  /\ clock = 0
  /\ files = EmptyMap
  /\ maxCheckpoints = keep
  /\ enableAutoSave = autoSave
  /\ progressTracker = "null"
  /\ autoSaveTimer = FALSE
  /\ lastCheckpoint = -1
  /\ savePc = [p \in Savers |-> "idle"]
  /\ saveCheckpointOf = [p \in Savers |-> NoCheckpoint]
  /\ toDelete = [p \in Savers |-> {}]
  /\ findResult = "none"

\* no persistence is in use (the other specifications)
IdlePersist == NewProgressPersistence(1, FALSE)

(***************************************************************************)
(* Classification of one failure: ErrorFactory builds the error from an    *)
(* HTTP response, a network exception or a GraphQL response; the error's   *)
(* isRetryable() and getRetryDelay() classify it.                          *)
(***************************************************************************)
VARIABLES
  cause,               \* what ErrorFactory was given
  thrown,              \* the error it built
  thrownRetryAfter     \* RateLimitError.retryAfter of that error

classifyVars == <<cause, thrown, thrownRetryAfter>>

\* longest retry-after header value
MaxHeaderLen == 2

\* a header or field the response does not carry (undefined)
Absent == <<"absent">>

Digits == {"0", "1", "3"}

DigitValue(c) ==
  CASE c = "0" -> 0
    [] c = "1" -> 1
    [] c = "3" -> 3

\* the retry-after values of the server: no header, or a string of digits
\* (the empty string included)
RetryAfterValues ==
  {Absent} \cup UNION {[1..n -> Digits] : n \in 0..MaxHeaderLen}

HttpStatuses == {400, 401, 403, 404, 429, 500, 502, 503, 504}

\* response.status, response.statusCode (0: not set) and
\* response.headers['retry-after']
Responses ==
  [status : HttpStatuses \cup {0}, statusCode : {0, 429, 503},
   retryAfter : RetryAfterValues]

NetworkCodes == {"ECONNREFUSED", "ENOTFOUND", "ETIMEDOUT", "ECONNRESET",
                 "none"}

\* ToNumber of a string of digits (the empty string is 0)
RECURSIVE ToNumber(_)
ToNumber(s) ==
  IF Len(s) = 0 THEN 0
  ELSE 10 * ToNumber(SubSeq(s, 1, Len(s) - 1)) + DigitValue(s[Len(s)])

\* ToBoolean of a header value: undefined and the empty string are falsy
Truthy(v) == v # Absent /\ Len(v) > 0

\* ErrorFactory.fromHttpResponse: const status
StatusOf(response) ==
  IF response.status # 0 THEN response.status
  ELSE IF response.statusCode # 0 THEN response.statusCode
  ELSE 0

\* ErrorFactory.fromHttpResponse: the retryAfter given to RateLimitError
RetryAfterOf(response) ==
  IF StatusOf(response) = 429 THEN response.retryAfter ELSE Absent

\* the error classes that define a getRetryDelay method
HasGetRetryDelay(err) ==
  err.name \in {"ApiError", "NetworkError", "RateLimitError", "TimeoutError"}

RetryDelayIgnoringRetryAfter(err, retryAfter) ==
  CASE err.name = "ApiError" ->
         IF err.status = 429 THEN 5000
         ELSE IF err.status \in {500, 502, 503, 504} THEN 2000
         ELSE 1000
    [] err.name = "NetworkError" -> 2000
    [] err.name = "RateLimitError" -> 5000
    [] err.name = "TimeoutError" -> 3000

\* getRetryDelay() of ApiError, NetworkError, RateLimitError and TimeoutError
ErrorGetRetryDelay(err, retryAfter) ==
  CASE err.name = "ApiError" ->
         IF err.status = 429 THEN 5000
         ELSE IF err.status \in {500, 502, 503, 504} THEN 2000
         ELSE 1000
    [] err.name = "NetworkError" -> 2000
    [] err.name = "RateLimitError" ->
         IF Truthy(retryAfter) THEN ToNumber(retryAfter) * 1000 ELSE 5000
    [] err.name = "TimeoutError" -> 3000

\* new ValidationError(field, value, rule)
ValidationError ==
  [name |-> "ValidationError", status |-> 0, code |-> "VALIDATION_ERROR"]

\* ErrorFactory.fromHttpResponse(response)
ClassifyHttpResponse(response) ==
  /\ cause' = [kind |-> "response", status |-> response.status,
               statusCode |-> response.statusCode,
               retryAfter |-> response.retryAfter, code |-> "none"]
  /\ thrown' = FromHttpResponse(StatusOf(response))
  /\ thrownRetryAfter' = RetryAfterOf(response)

\* ErrorFactory.fromNetworkError(error)
ClassifyNetworkError(code) ==
  /\ cause' = [kind |-> "network", status |-> 0, statusCode |-> 0,
               retryAfter |-> Absent, code |-> code]
  /\ thrown' = FromNetworkError(code)
  /\ thrownRetryAfter' = Absent

\* ErrorFactory.fromGraphQLResponse(graphqlResponse)
ClassifyGraphQLResponse(extCode) ==
  /\ cause' = [kind |-> "graphql", status |-> 0, statusCode |-> 0,
               retryAfter |-> Absent, code |-> extCode]
  /\ thrown' = GraphQLError(extCode)
  /\ thrownRetryAfter' = Absent

\* a ValidationError is thrown
ClassifyValidationError ==
  /\ cause' = [kind |-> "validation", status |-> 0, statusCode |-> 0,
               retryAfter |-> Absent, code |-> "none"]
  /\ thrown' = ValidationError
  /\ thrownRetryAfter' = Absent

\* nothing has failed yet
IdleClassify ==
  /\ cause = [kind |-> "none", status |-> 0, statusCode |-> 0,
              retryAfter |-> Absent, code |-> "none"]
  /\ thrown = NoError
  /\ thrownRetryAfter = Absent

(***************************************************************************)
(* Observers of the ProgressTracker: what the tracker was last asked, kept *)
(* beside the tracker's own state.                                         *)
(***************************************************************************)
VARIABLES
  removed,             \* observers given to removeObserver and not added since
  lastThrowers,        \* observers that threw during the last event
  lastNotified         \* the last call was an event that reached notifyObservers

observerVars == <<removed, lastThrowers, lastNotified>>

\* observers registered at the same time
MaxRegistered == 2

\* the observers in the list
Registered(obs) == {obs[i] : i \in 1..Len(obs)}

\* a tracker event method called while the observers of throwers throw
EventCalled(throttled, alwaysNotified, throwers) ==
  /\ lastThrowers' = throwers
  /\ lastNotified' = (alwaysNotified \/ ~throttled)
  /\ UNCHANGED removed

\* tracker.addObserver(o) is called
AddObserverCalled(o) ==
  /\ AddObserverWithin(o, MaxRegistered)
  /\ removed' = removed \ {o}
  /\ lastThrowers' = {}
  /\ lastNotified' = FALSE

\* tracker.removeObserver(o) is called
RemoveObserverCalled(o) ==
  /\ RemoveObserver(o)
  /\ removed' = removed \cup {o}
  /\ lastThrowers' = {}
  /\ lastNotified' = FALSE

\* tracker.shutdown() is called
ShutdownCalled ==
  /\ Shutdown
  /\ lastThrowers' = {}
  /\ lastNotified' = FALSE
  /\ UNCHANGED removed

IdleObservers ==
  /\ removed = {}
  /\ lastThrowers = {}
  /\ lastNotified = FALSE

(***************************************************************************)
(* One import: ImportCsvUseCase.execute with its ImportSession, the batch  *)
(* loop of importToLaylo, LayloApiRepository.subscribeUsersBatch and       *)
(* CommandExecutor.executeMany.  A subscriber is [id, valid]: id stands    *)
(* for getUniqueId() (the lower-cased email), valid for isValid().  The    *)
(* commands of a batch are run as in the batch model above; here a batch   *)
(* is one step that yields the final outcome of every command.             *)
(***************************************************************************)
VARIABLES
  importPc,          \* ready, testing, loading, importing, returned
  loaded,            \* the subscribers loadAndValidateData returns
  skipDeduplication, \* importOptions.skipDeduplication
  importBatchSize,   \* importOptions.batchSize
  importFailFast,    \* importOptions.failFast
  importConcurrency, \* importOptions.concurrency
  uniqueData,        \* positions in loaded given to importToLaylo, in order
  importBatchIndex,  \* batchIndex of the loop of importToLaylo
  importStatus,      \* ImportSession.status
  progress,          \* ImportSession.progress (the three counters)
  recordedTimes,     \* per position in loaded: recordSuccess/recordFailure calls
  submittedRecords,  \* subscribers passed to subscribeUsersBatch so far
  lastBatch,         \* the last subscribeUsersBatch call, as its caller saw it
  stepThrew,         \* a step of the pipeline threw into the catch of execute
  importResult       \* what execute returned: none, success, failure

importVars == <<importPc, loaded, skipDeduplication, importBatchSize,
                importFailFast, importConcurrency, uniqueData,
                importBatchIndex, importStatus, progress, recordedTimes,
                submittedRecords, lastBatch, stepThrew, importResult>>

MaxImport == 3       \* subscribers of an import explored
MaxBatchSize == 2    \* batchSize explored

SubscriberIds == {1, 2}

LoadedSubscribers == [id : SubscriberIds, valid : BOOLEAN]

NoBatch == [size |-> 0, failed |-> FALSE, threw |-> FALSE, results |-> 0]

\* DeduplicationService.processBatch with the default by-email strategy on a
\* new service: the first position of every id
FirstOccurrences(subs) ==
  {i \in 1..Len(subs) : \A j \in 1..(i - 1) : subs[j].id # subs[i].id}

\* ImportCsvUseCase.processDeduplication
ProcessDeduplication(subs, skip) ==
  IF skip THEN [i \in 1..Len(subs) |-> i]
  ELSE Ascending(FirstOccurrences(subs))

\* ImportCsvUseCase.createBatches: batch b (from 0) of the list
BatchOf(list, b, size) ==
  SubSeq(list, b * size + 1, Min((b + 1) * size, Len(list)))

\* the elements of a sequence that satisfy Keep, in order
RECURSIVE Filter(_, _)
Filter(seq, keep) ==
  IF seq = <<>> THEN <<>>
  ELSE (IF Head(seq) \in keep THEN <<Head(seq)>> ELSE <<>>)
         \o Filter(Tail(seq), keep)

\* processSequentially with failFast: the results up to the first failure;
\* otherwise one result per command
RECURSIVE CommandResults(_, _, _)
CommandResults(cmds, ok, stopAtFailure) ==
  IF cmds = <<>> THEN <<>>
  ELSE <<[pos |-> Head(cmds), success |-> ok[Head(cmds)]]>>
         \o (IF stopAtFailure /\ ~ok[Head(cmds)] THEN <<>>
             ELSE CommandResults(Tail(cmds), ok, stopAtFailure))

\* CommandExecutor.executeMany:
\* return batchResult.success ? batchResult.data : []
ExecuteMany(batchSucceeded, data) ==
  IF batchSucceeded THEN [threw |-> FALSE, data |-> data]
  ELSE [threw |-> FALSE, data |-> <<>>]

\* importToLaylo: subscribers.find(s => s.getUniqueId() === subscriberId)
Find(list, id) ==
  LET hits == {k \in 1..Len(list) : loaded[list[k]].id = id}
  IN list[CHOOSE k \in hits : \A m \in hits : k <= m]

\* ImportSession.recordSuccess / recordFailure for the results of a batch
RECURSIVE RecordResults(_, _, _)
RecordResults(res, prog, times) ==
  IF res = <<>> THEN [progress |-> prog, recordedTimes |-> times]
  ELSE LET r == Head(res)
           target == Find(uniqueData, loaded[r.pos].id)
       IN RecordResults(Tail(res),
            [processedRecords |-> prog.processedRecords + 1,
             successfulRecords |-> prog.successfulRecords
                                     + (IF r.success THEN 1 ELSE 0),
             failedRecords |-> prog.failedRecords
                                 + (IF r.success THEN 0 ELSE 1)],
            [times EXCEPT ![target] = @ + 1])

\* ImportSession.complete(success)
Complete(success) == IF success THEN "completed" ELSE "failed"

CompleteImportOnlyWithoutFailures(prog) == prog.failedRecords = 0

\* ImportCsvUseCase.completeImport: importSession.complete(true)
CompleteImportSuccess(prog) == TRUE

\* the catch of ImportCsvUseCase.execute: importSession.complete(false),
\* return { success: false, ... }
ExecuteCatches ==
  /\ importStatus' = Complete(FALSE)
  /\ stepThrew' = TRUE
  /\ importResult' = "failure"
  /\ importPc' = "returned"

\* ImportCsvUseCase.execute is called: new ImportSession, testApiConnection
\* up to its await
Execute ==
  /\ importPc = "ready"
  /\ importPc' = "testing"
  /\ UNCHANGED <<loaded, skipDeduplication, importBatchSize, importFailFast,
                 importConcurrency, uniqueData, importBatchIndex,
                 importStatus, progress, recordedTimes, submittedRecords,
                 lastBatch, stepThrew, importResult>>

\* testConnection() has returned; loadAndValidateData up to the await of
\* csvRepository.readAll
TestApiConnection(connected) ==
  /\ importPc = "testing"
  /\ IF connected
     THEN /\ importPc' = "loading"
          /\ UNCHANGED <<importStatus, stepThrew, importResult>>
     ELSE ExecuteCatches
  /\ UNCHANGED <<loaded, skipDeduplication, importBatchSize, importFailFast,
                 importConcurrency, uniqueData, importBatchIndex, progress,
                 recordedTimes, submittedRecords, lastBatch>>

\* readAll has returned or thrown; importSession.start, the validation
\* loop, processDeduplication and importToLaylo up to the first await of
\* subscribeUsersBatch
LoadAndValidateData(readable) ==
  /\ importPc = "loading"
  /\ IF readable
     THEN /\ importStatus' = "processing"
          /\ uniqueData' = ProcessDeduplication(loaded, skipDeduplication)
          /\ importBatchIndex' = 0
          /\ importPc' = "importing"
          /\ UNCHANGED <<stepThrew, importResult>>
     ELSE /\ ExecuteCatches
          /\ UNCHANGED <<uniqueData, importBatchIndex>>
  /\ UNCHANGED <<loaded, skipDeduplication, importBatchSize, importFailFast,
                 importConcurrency, progress, recordedTimes, submittedRecords,
                 lastBatch>>

\* one turn of the loop of importToLaylo: subscribeUsersBatch(batch) settles
\* and its results are recorded.  ok is the final outcome of each command,
\* batchSucceeded is CommandResult.success of BatchProcessCommand.execute,
\* executorThrows is an exception out of CommandExecutor.executeMany.
SubscribeUsersBatch(ok, batchSucceeded, executorThrows) ==
  /\ importPc = "importing"
  /\ importBatchIndex * importBatchSize < Len(uniqueData)
  /\ LET batch == BatchOf(uniqueData, importBatchIndex, importBatchSize)
         validSubscribers == Filter(batch, {i \in 1..Len(loaded) : loaded[i].valid})
         invalidResults ==
           [k \in 1..Len(Filter(batch, {i \in 1..Len(loaded) : ~loaded[i].valid}))
              |-> [pos |-> Filter(batch, {i \in 1..Len(loaded) :
                                            ~loaded[i].valid})[k],
                   success |-> FALSE]]
         data == CommandResults(validSubscribers, ok,
                                importFailFast /\ importConcurrency = 1)
         many == IF executorThrows
                 THEN [threw |-> TRUE, data |-> <<>>]
                 ELSE ExecuteMany(batchSucceeded, data)
         allResults == invalidResults \o many.data
         rec == RecordResults(allResults, progress, recordedTimes)
     IN /\ validSubscribers = <<>> => (batchSucceeded /\ ~executorThrows)
        /\ executorThrows => ~batchSucceeded
        /\ submittedRecords' = submittedRecords + Len(batch)
        /\ lastBatch' = [size |-> Len(batch), failed |-> ~batchSucceeded,
                         threw |-> many.threw, results |-> Len(allResults)]
        /\ IF many.threw
           THEN \* subscribeUsersBatch rethrows, importToLaylo rejects
                /\ ExecuteCatches
                /\ UNCHANGED <<progress, recordedTimes, importBatchIndex>>
           ELSE /\ progress' = rec.progress
                /\ recordedTimes' = rec.recordedTimes
                /\ importBatchIndex' = importBatchIndex + 1
                /\ UNCHANGED <<importPc, importStatus, stepThrew, importResult>>
  /\ UNCHANGED <<loaded, skipDeduplication, importBatchSize, importFailFast,
                 importConcurrency, uniqueData>>

\* the loop of importToLaylo is over: completeImport, execute returns
\* { success: true, ... }
CompleteImportSession ==
  /\ importPc = "importing"
  /\ importBatchIndex * importBatchSize >= Len(uniqueData)
  /\ importStatus' = Complete(CompleteImportSuccess(progress))
  /\ importResult' = IF CompleteImportSuccess(progress) THEN "success"
                     ELSE "failure"
  /\ importPc' = "returned"
  /\ UNCHANGED <<loaded, skipDeduplication, importBatchSize, importFailFast,
                 importConcurrency, uniqueData, importBatchIndex, progress,
                 recordedTimes, submittedRecords, lastBatch, stepThrew>>

\* new ImportCsvUseCase, about to be run on a file that holds subs
NewImport(subs, skip, size, ff, c) ==
  /\ importPc = "ready"
  /\ loaded = subs
  /\ skipDeduplication = skip
  /\ importBatchSize = size
  /\ importFailFast = ff
  /\ importConcurrency = c
  /\ uniqueData = <<>>
  /\ importBatchIndex = 0
  /\ importStatus = "initialized"
  /\ progress = [processedRecords |-> 0, successfulRecords |-> 0,
                 failedRecords |-> 0]
  /\ recordedTimes = [i \in 1..Len(subs) |-> 0]
  /\ submittedRecords = 0
  /\ lastBatch = NoBatch
  /\ stepThrew = FALSE
  /\ importResult = "none"

\* no import is running (the other specifications)
IdleImport ==
  NewImport(<<[id |-> 1, valid |-> TRUE]>>, FALSE, 1, FALSE, 1)

(***************************************************************************)
(* Specifications                                                          *)
(***************************************************************************)
vars == <<trackerVars, retryVars, resumeVars, batchVars, limiterVars,
          dedupVars, persistVars, classifyVars, observerVars, importVars>>

notTracker == <<retryVars, resumeVars, batchVars, limiterVars,
  dedupVars, persistVars,
  classifyVars,
    observerVars, importVars>>
notRetry == <<trackerVars, resumeVars, batchVars, limiterVars,
  dedupVars, persistVars,
  classifyVars,
    observerVars, importVars>>
notResume == <<trackerVars, retryVars, batchVars, limiterVars,
  dedupVars, persistVars,
  classifyVars,
    observerVars, importVars>>
notBatch == <<trackerVars, retryVars, resumeVars, limiterVars,
  dedupVars, persistVars,
  classifyVars,
    observerVars, importVars>>
notDedup ==
  <<trackerVars, retryVars, resumeVars, batchVars, limiterVars, persistVars,
    classifyVars,
    observerVars, importVars>>
notPersist ==
  <<retryVars, resumeVars, batchVars, limiterVars, dedupVars, classifyVars,
    observerVars, importVars>>
notClassify ==
  <<trackerVars, retryVars, resumeVars, batchVars, limiterVars, dedupVars,
    persistVars, observerVars, importVars>>
notObservers ==
  <<retryVars, resumeVars, batchVars, limiterVars, dedupVars, persistVars,
    classifyVars, importVars>>
notImport ==
  <<trackerVars, retryVars, resumeVars, batchVars, limiterVars, dedupVars,
    persistVars, classifyVars, observerVars>>
notLimiter == <<trackerVars, retryVars, resumeVars, batchVars,
  dedupVars, persistVars,
  classifyVars,
    observerVars, importVars>>

NextTracker ==
  \/ \E o \in ObserverIds : AddObserver(o) /\ UNCHANGED notTracker
  \/ \E o \in ObserverIds : RemoveObserver(o) /\ UNCHANGED notTracker
  \/ \E t \in {MaxRecords}, th \in Throwers :
        StartSession(t, th) /\ UNCHANGED notTracker
  \/ \E p \in Phases, th \in Throwers :
        PhaseChange(p, th) /\ UNCHANGED notTracker
  \/ \E b \in BatchNumbers, s \in BatchSizes, thr \in BOOLEAN, th \in Throwers :
        BatchStart(b, s, thr, th) /\ UNCHANGED notTracker
  \/ \E thr \in BOOLEAN, th \in Throwers :
        BatchProgress(1, thr, th) /\ UNCHANGED notTracker
  \/ \E thr \in BOOLEAN, th \in Throwers :
        BatchComplete(thr, th) /\ UNCHANGED notTracker
  \/ \E ok \in BOOLEAN, thr \in BOOLEAN, th \in Throwers :
        RecordProcessed(ok, thr, th) /\ UNCHANGED notTracker
  \/ \E e \in {"Error", "null"}, th \in Throwers :
        ErrorOccurred(e, th) /\ UNCHANGED notTracker
  \/ \E thr \in BOOLEAN, th \in Throwers :
        WarningOccurred(thr, th) /\ UNCHANGED notTracker
  \/ \E th \in Throwers : MilestoneReached(th) /\ UNCHANGED notTracker
  \/ \E ok \in BOOLEAN, th \in Throwers :
        SessionComplete(ok, th) /\ UNCHANGED notTracker
  \/ Pause /\ UNCHANGED notTracker
  \/ Resume /\ UNCHANGED notTracker
  \/ \E thr \in BOOLEAN, th \in Throwers :
        PeriodicUpdate(thr, th) /\ UNCHANGED notTracker
  \/ Shutdown /\ UNCHANGED notTracker

InitSpecTracker ==
  InitTracker /\ IdleRetry /\ IdleResume /\ IdleBatch /\ IdleLimiter
  /\ IdleDedup
  /\ IdlePersist
  /\ IdleClassify
  /\ IdleObservers
  /\ IdleImport

SpecTracker == InitSpecTracker /\ [][NextTracker]_vars

NextRetry ==
  \/ StartCommand /\ UNCHANGED notRetry
  \/ AcquireReturns /\ UNCHANGED notRetry
  \/ \E outcome \in Outcomes : Respond(outcome) /\ UNCHANGED notRetry
  \/ HttpSleepEnds /\ UNCHANGED notRetry
  \/ CommandSleepEnds /\ UNCHANGED notRetry

InitSpecRetry ==
  /\ InitTracker
  /\ \E n \in 1..DefaultRetryAttempts, r \in BOOLEAN : NewCommand(n, r)
  /\ IdleResume
  /\ IdleBatch
  /\ IdleLimiter
  /\ IdleDedup
  /\ IdlePersist
  /\ IdleClassify
  /\ IdleObservers
  /\ IdleImport

SpecRetry == InitSpecRetry /\ [][NextRetry]_vars

NextResume ==
  \/ PerformResume /\ UNCHANGED notResume
  \/ CallResume /\ UNCHANGED notResume
  \/ ExecuteImport /\ UNCHANGED notResume
  \/ SubmitBatch /\ UNCHANGED notResume
  \/ CompleteImport /\ UNCHANGED notResume

InitSpecResume ==
  /\ InitTracker
  /\ IdleRetry
  /\ \E n \in 1..MaxSource, st \in {"paused", "failed", "interrupted"},
        size \in 1..2 :
       \E k \in 0..(n - 1) : StoredSession(n, k, st, size)
  /\ IdleBatch
  /\ IdleLimiter
  /\ IdleDedup
  /\ IdlePersist
  /\ IdleClassify
  /\ IdleObservers
  /\ IdleImport

SpecResume == InitSpecResume /\ [][NextResume]_vars

NextBatch ==
  \/ StartBatch /\ UNCHANGED notBatch
  \/ \E op \in Ops : Admitted(op) /\ UNCHANGED notBatch
  \/ \E op \in Ops, outcome \in ExecuteOutcomes :
        ExecuteReturns(op, outcome) /\ UNCHANGED notBatch
  \/ \E op \in Ops : RetrySleepEnds(op) /\ UNCHANGED notBatch

InitSpecBatch ==
  /\ InitTracker
  /\ IdleRetry
  /\ IdleResume
  /\ \E c \in 1..MaxConcurrency, ff \in BOOLEAN :
       \E n \in 1..(IF c = 1 THEN MaxSeqCommands ELSE MaxCommands) :
         NewBatch(n, c, ff)
  /\ IdleLimiter
  /\ IdleDedup
  /\ IdlePersist
  /\ IdleClassify
  /\ IdleObservers
  /\ IdleImport

SpecBatch == InitSpecBatch /\ [][NextBatch]_vars

NextLimiter ==
  \/ \E c \in Callers : Acquire(c) /\ UNCHANGED notLimiter
  \/ \E c \in Callers : AcquireSleepEnds(c) /\ UNCHANGED notLimiter
  \/ GetAvailableTokens /\ UNCHANGED notLimiter
  \/ ClockAdvances /\ UNCHANGED notLimiter

InitSpecLimiter ==
  /\ InitTracker
  /\ IdleRetry
  /\ IdleResume
  /\ IdleBatch
  /\ \E r \in 1..MaxRate, b \in 1..MaxBurst, n \in 1..MaxCallers :
       NewRateLimiter(r, b, n)
  /\ IdleDedup
  /\ IdlePersist
  /\ IdleClassify
  /\ IdleObservers
  /\ IdleImport

SpecLimiter == InitSpecLimiter /\ [][NextLimiter]_vars

NextDedup ==
  \/ ProcessBatch /\ UNCHANGED notDedup
  \/ Reset /\ UNCHANGED notDedup

InitSpecDedup ==
  /\ InitTracker
  /\ IdleRetry
  /\ IdleResume
  /\ IdleBatch
  /\ IdleLimiter
  /\ \E strat \in Strategies, subs \in Inputs :
       NewDeduplicationService(strat, subs)
  /\ IdlePersist
  /\ IdleClassify
  /\ IdleObservers
  /\ IdleImport

SpecDedup == InitSpecDedup /\ [][NextDedup]_vars

\* checkpoint retention: saves by a direct caller and by the auto-save
\* timer for a running session
NextPersist ==
  \/ StartSession(MaxRecords, {}) /\ status = "idle"
       /\ UNCHANGED <<notPersist, persistVars>>
  \/ DateNowAdvances /\ UNCHANGED <<notPersist, trackerVars>>
  \/ AttachToTracker /\ UNCHANGED <<notPersist, trackerVars>>
  \/ SaveCheckpoint /\ UNCHANGED <<notPersist, trackerVars>>
  \/ AutoSaveFires /\ UNCHANGED <<notPersist, trackerVars>>
  \/ \E p \in Savers : WriteFile(p) /\ UNCHANGED <<notPersist, trackerVars>>
  \/ \E p \in Savers : ListForCleanup(p) /\ UNCHANGED <<notPersist, trackerVars>>
  \/ \E p \in Savers : DeleteOld(p) /\ UNCHANGED <<notPersist, trackerVars>>

InitSpecPersist ==
  /\ InitTracker
  /\ IdleRetry
  /\ IdleResume
  /\ IdleBatch
  /\ IdleLimiter
  /\ IdleDedup
  /\ \E keep \in 1..MaxKeep, autoSave \in BOOLEAN :
       NewProgressPersistence(keep, autoSave)
  /\ IdleClassify
  /\ IdleObservers
  /\ IdleImport

SpecPersist == InitSpecPersist /\ [][NextPersist]_vars

\* a session from its start to its end whose checkpoints are written by the
\* auto-save timer, with attach, detach and shutdown, and
\* findResumableSessions
NextAutoSave ==
  \/ StartSession(MaxRecords, {}) /\ status = "idle"
       /\ UNCHANGED <<notPersist, persistVars>>
  \/ RecordProcessed(TRUE, FALSE, {}) /\ status = "active"
       /\ UNCHANGED <<notPersist, persistVars>>
  \/ Pause /\ status = "active" /\ UNCHANGED <<notPersist, persistVars>>
  \/ Resume /\ status = "paused" /\ UNCHANGED <<notPersist, persistVars>>
  \/ \E success \in BOOLEAN :
       SessionComplete(success, {}) /\ status = "active"
         /\ UNCHANGED <<notPersist, persistVars>>
  \/ DateNowAdvances /\ UNCHANGED <<notPersist, trackerVars>>
  \/ AttachToTracker /\ UNCHANGED <<notPersist, trackerVars>>
  \/ DetachFromTracker /\ UNCHANGED <<notPersist, trackerVars>>
  \/ ShutdownPersistence /\ UNCHANGED <<notPersist, trackerVars>>
  \/ AutoSaveFires /\ UNCHANGED <<notPersist, trackerVars>>
  \/ \E p \in Savers : WriteFile(p) /\ UNCHANGED <<notPersist, trackerVars>>
  \/ \E p \in Savers : ListForCleanup(p) /\ UNCHANGED <<notPersist, trackerVars>>
  \/ \E p \in Savers : DeleteOld(p) /\ UNCHANGED <<notPersist, trackerVars>>
  \/ FindResumableSessions /\ UNCHANGED <<notPersist, trackerVars>>

InitSpecAutoSave ==
  /\ InitTracker
  /\ IdleRetry
  /\ IdleResume
  /\ IdleBatch
  /\ IdleLimiter
  /\ IdleDedup
  /\ NewProgressPersistence(MaxKeep, TRUE)
  /\ IdleClassify
  /\ IdleObservers
  /\ IdleImport

SpecAutoSave == InitSpecAutoSave /\ [][NextAutoSave]_vars

NextClassify ==
  \/ \E response \in Responses :
        ClassifyHttpResponse(response) /\ UNCHANGED notClassify
  \/ \E code \in NetworkCodes :
        ClassifyNetworkError(code) /\ UNCHANGED notClassify
  \/ \E extCode \in {"INTERNAL_ERROR", "BAD_USER_INPUT"} :
        ClassifyGraphQLResponse(extCode) /\ UNCHANGED notClassify
  \/ ClassifyValidationError /\ UNCHANGED notClassify

InitSpecClassify ==
  /\ InitTracker
  /\ IdleRetry
  /\ IdleResume
  /\ IdleBatch
  /\ IdleLimiter
  /\ IdleDedup
  /\ IdlePersist
  /\ IdleClassify
  /\ IdleObservers
  /\ IdleImport

SpecClassify == InitSpecClassify /\ [][NextClassify]_vars

NextObservers ==
  \/ \E o \in ObserverIds : AddObserverCalled(o) /\ UNCHANGED notObservers
  \/ \E o \in ObserverIds : RemoveObserverCalled(o) /\ UNCHANGED notObservers
  \/ \E th \in Throwers :
        /\ StartSession(MaxRecords, th)
        /\ EventCalled(FALSE, TRUE, th)
        /\ UNCHANGED notObservers
  \/ \E p \in Phases, th \in Throwers :
        /\ PhaseChange(p, th)
        /\ EventCalled(FALSE, TRUE, th)
        /\ UNCHANGED notObservers
  \/ \E ok \in BOOLEAN, thr \in BOOLEAN, th \in Throwers :
        /\ RecordProcessed(ok, thr, th)
        /\ EventCalled(thr, FALSE, th)
        /\ UNCHANGED notObservers
  \/ ShutdownCalled /\ UNCHANGED notObservers

InitSpecObservers ==
  /\ InitTracker
  /\ IdleRetry
  /\ IdleResume
  /\ IdleBatch
  /\ IdleLimiter
  /\ IdleDedup
  /\ IdlePersist
  /\ IdleClassify
  /\ IdleObservers
  /\ IdleImport

SpecObservers == InitSpecObservers /\ [][NextObservers]_vars

\* the event loop runs every callback that is due and every attempt returns
SpecBatchFair == SpecBatch /\ WF_vars(NextBatch)

NextImport ==
  \/ Execute /\ UNCHANGED notImport
  \/ \E connected \in BOOLEAN :
        TestApiConnection(connected) /\ UNCHANGED notImport
  \/ \E readable \in BOOLEAN :
        LoadAndValidateData(readable) /\ UNCHANGED notImport
  \/ \E ok \in [1..Len(loaded) -> BOOLEAN], batchSucceeded \in BOOLEAN,
        executorThrows \in BOOLEAN :
        SubscribeUsersBatch(ok, batchSucceeded, executorThrows)
          /\ UNCHANGED notImport
  \/ CompleteImportSession /\ UNCHANGED notImport

InitSpecImport ==
  /\ InitTracker
  /\ IdleRetry
  /\ IdleResume
  /\ IdleBatch
  /\ IdleLimiter
  /\ IdleDedup
  /\ IdlePersist
  /\ IdleClassify
  /\ IdleObservers
  /\ \E subs \in UNION {[1..n -> LoadedSubscribers] : n \in 1..MaxImport},
        skip \in BOOLEAN, size \in 1..MaxBatchSize, ff \in BOOLEAN,
        c \in 1..MaxConcurrency :
       NewImport(subs, skip, size, ff, c)

SpecImport == InitSpecImport /\ [][NextImport]_vars

(***************************************************************************)
(* Claims                                                                  *)
(***************************************************************************)

\* C1: after any sequence of ProgressTracker event calls, the ProgressState
\* satisfies processedRecords = successfulRecords + failedRecords.
C1_ProcessedIsSuccessfulPlusFailed ==
  processedRecords = successfulRecords + failedRecords

\* C1 witness: records of both outcomes were processed, an error was
\* recorded and the tracker was shut down afterwards.
C1_Witness ==
  /\ successfulRecords >= 1
  /\ failedRecords >= 1
  /\ status = "shutdown"
  /\ Len(errors) >= 1

\* C2 (as claimed): the requests sent to the remote endpoint for one record,
\* over all command executions and all tries of HttpClient.request inside
\* them, never exceed maxRetries + 1.
C2_TriesAtMostMaxRetriesPlusOne ==
  requestsSent <= maxRetries + 1

\* C3: once a try has failed with an error classified fatal, the operation
\* is finalized as failed and no further request is sent for it.
C3_FatalStopsRetries ==
  fatalSeen => (pc = "done" /\ result = "failed" /\ sentAfterFatal = 0)

\* C3 witness: a fatal failure arrived while both retry budgets still had
\* attempts left, after an earlier retryable failure.
C3_Witness ==
  /\ fatalSeen
  /\ pc = "done"
  /\ requestsSent >= 2
  /\ attempts < maxRetries
  /\ httpAttempts < retryAttempts
  /\ retryFailedCommands

\* C4 (as claimed): when resuming from the latest valid checkpoint has
\* finished, the records submitted are exactly those with index
\* lastProcessedRecord + 1 and above, each once, in order.
C4_ResumeSubmitsExactlyTheRest ==
  resumePc = "done" =>
    submitted = Ascending({r \in 1..csvRecords : r > lastProcessedRecord})

\* C5: in sequential mode with failFast, the results are those of the
\* commands 1..k in input order, where k is the first command whose final
\* outcome is a failure (all of them if none fails), and no command after
\* a failed one is ever executed.
C5_FailFastStopsAtFirstFailure ==
  (concurrency = 1 /\ failFast) =>
    /\ \A op \in Ops :
         opResult[op] = "failed" =>
           \A later \in Ops : later > op =>
             opAttempts[later] = 0 /\ opState[later] = "pending"
    /\ batchPc = "returned" =>
         /\ Len(results) >= 1
         /\ \A k \in 1..Len(results) :
              /\ results[k].op = k
              /\ results[k].success = (opResult[k] = "success")
              /\ k < Len(results) => results[k].success
         /\ Len(results) < nCommands => ~results[Len(results)].success

\* C5 witness: 5 commands, command 3 fails fatally on its first try, the
\* batch has returned 3 results and commands 4 and 5 never ran.
C5_Witness ==
  /\ concurrency = 1 /\ failFast /\ nCommands = 5
  /\ batchPc = "returned"
  /\ Len(results) = 3
  /\ opResult[3] = "failed" /\ opAttempts[3] = 1
  /\ opAttempts[4] = 0 /\ opAttempts[5] = 0

\* C6: in concurrent mode, whatever the completion order, the array
\* returned holds one outcome per command and entry i is the outcome of
\* command i.
C6_OneOutcomePerCommandInInputOrder ==
  (concurrency > 1 /\ batchPc = "returned") =>
    /\ Len(results) = nCommands
    /\ \A op \in Ops :
         /\ results[op].op = op
         /\ opResult[op] # "none"
         /\ results[op].success = (opResult[op] = "success")

\* C6 witness: three commands finished in an order other than the input
\* order, one of them failed, and the batch has returned.
C6_Witness ==
  /\ concurrency > 1 /\ batchPc = "returned" /\ nCommands = 3
  /\ completed = <<2, 3, 1>>
  /\ opResult[1] = "success" /\ opResult[2] = "failed"

\* C7: in concurrent mode at most concurrency commands are between
\* Semaphore.acquire and Semaphore.release at any time, sleeping ones
\* included.
C7_AtMostNInFlight ==
  concurrency > 1 => Cardinality(InFlight) <= concurrency

\* C7 witness: the semaphore is exhausted, a command sleeps between two
\* tries while holding its permit and another command waits in the queue.
C7_Witness ==
  /\ concurrency > 1
  /\ Cardinality(InFlight) = concurrency
  /\ \E op \in Ops : opState[op] = "sleeping"
  /\ \E op \in Ops : opState[op] = "executing" /\ opAttempts[op] >= 2
  /\ Len(waiting) >= 1

\* C8: whatever the interleaving of acquire() and getAvailableTokens() by
\* concurrent callers, 0 <= tokens <= maxTokens, and getAvailableTokens()
\* never reports more than the capacity.
C8_TokensWithinCapacity ==
  /\ 0 <= tokens
  /\ tokens <= maxTokens
  /\ reported * Milli <= maxTokens
  /\ reported >= 0

\* C8 witness: two callers, one asleep inside acquire(), the bucket holds a
\* fraction of a token after having been refilled up to its cap, and
\* getAvailableTokens() has reported 0.
C8_Witness ==
  /\ nCallers = 2
  /\ \E c \in Callers : callerPc[c] = "sleeping"
  /\ tokens > 0 /\ tokens < Milli
  /\ reported = 0
  /\ Len(acquireLog) >= 2
  /\ \E k \in 1..Len(acquireLog) :
       acquireLog[k].had = maxTokens /\ acquireLog[k].at > 0

\* C10: a single sequential caller starting from a full bucket: the first
\* maxTokens acquire() calls return without sleeping; an acquire() that
\* follows one that emptied the bucket returns at least 1/refillRate
\* seconds later; acquire() returns only when a whole token is there; and
\* with capacity 2, rate 1/s and a caller that never idles, the three calls
\* return at 0, 0 and 1000 ms.
C10_SequentialAcquireTiming ==
  nCallers = 1 =>
    /\ \A k \in 1..Len(acquireLog) :
         /\ k * Milli <= maxTokens => acquireLog[k].slept = 0
         /\ acquireLog[k].sinceEmpty # -1 =>
              acquireLog[k].sinceEmpty * refillRate >= Milli
         /\ acquireLog[k].had >= Milli
    /\ (maxTokens = 2 * Milli /\ refillRate = 1 /\ prompt
          /\ Len(acquireLog) = 3) =>
         /\ acquireLog[1].at = 0
         /\ acquireLog[2].at = 0
         /\ acquireLog[3].at = Milli

\* C10 witness: capacity 2, rate 1/s, one caller that never idled: three
\* acquire() calls have returned, the third after one sleep.
C10_Witness ==
  /\ nCallers = 1 /\ maxTokens = 2 * Milli /\ refillRate = 1 /\ prompt
  /\ Len(acquireLog) = 3
  /\ acquireLog[3].slept = 1
  /\ acquireLog[3].sinceEmpty = Milli

\* the positions before idx whose subscriber has the same key as idx
EarlierWithSameKey(idx) ==
  {j \in 1..(idx - 1) :
     /\ subscribers[j].isSubscriber
     /\ GenerateKey(strategy, subscribers[j])
          = GenerateKey(strategy, subscribers[idx])}

Minimum(S) == CHOOSE m \in S : \A n \in S : m <= n

\* how often the subscriber at idx occurs in the two lists of a result
Occurrences(res, idx) ==
  Cardinality({k \in 1..Len(res.unique) : res.unique[k] = idx})
    + Cardinality({k \in 1..Len(res.duplicates) :
                     res.duplicates[k].subscriber = idx})

\* every field the strategy builds its key from is empty or blank
AllKeyFieldsBlank(strat, sub) ==
  /\ Trim(sub.email) = <<>>
  /\ strat \in {"emailPhone", "strict"} => Trim(sub.phoneNumber) = <<>>
  /\ strat = "strict" =>
       Trim(sub.firstName) = <<>> /\ Trim(sub.lastName) = <<>>

\* C11: starting from an empty service, the first record with a given
\* non-empty key is unique and every later record with that key (by-email:
\* the email lower-cased and trimmed) is a duplicate whose originalRecord is
\* that first record.
C11_FirstSeenIsTheOriginal ==
  (runs >= 1 /\ fresh) =>
    \A idx \in 1..Len(subscribers) :
      (subscribers[idx].isSubscriber
         /\ ~KeyIsEmpty(GenerateKey(strategy, subscribers[idx]))) =>
        IF EarlierWithSameKey(idx) = {}
        THEN /\ \E k \in 1..Len(batchResult.unique) :
                  batchResult.unique[k] = idx
             /\ \A k \in 1..Len(batchResult.duplicates) :
                  batchResult.duplicates[k].subscriber # idx
        ELSE /\ \E k \in 1..Len(batchResult.duplicates) :
                  /\ batchResult.duplicates[k].subscriber = idx
                  /\ batchResult.duplicates[k].originalRecord
                       = Minimum(EarlierWithSameKey(idx))
             /\ \A k \in 1..Len(batchResult.unique) :
                  batchResult.unique[k] # idx

\* C11 witness: the 10 records of which the first and the seventh share an
\* email, by-email strategy: 9 unique, 1 duplicate, its original is the first.
C11_Witness ==
  /\ subscribers = TenRecords /\ strategy = "email" /\ runs = 1 /\ fresh
  /\ Len(batchResult.unique) = 9
  /\ Len(batchResult.duplicates) = 1
  /\ batchResult.duplicates[1].subscriber = 7
  /\ batchResult.duplicates[1].originalRecord = 1

\* C12: when every input is a Subscriber, processBatch returns unique and
\* duplicates whose lengths add up to the number of inputs, and every input
\* is in exactly one of the two lists.
C12_UniquePlusDuplicatesIsInput ==
  (runs >= 1 /\ \A idx \in 1..Len(subscribers) : subscribers[idx].isSubscriber)
    =>
    /\ Len(batchResult.unique) + Len(batchResult.duplicates) = Len(subscribers)
    /\ \A idx \in 1..Len(subscribers) : Occurrences(batchResult, idx) = 1

\* C12 witness: three Subscribers were processed and both lists are used.
C12_Witness ==
  /\ runs >= 1 /\ Len(subscribers) = MaxInput
  /\ \A idx \in 1..Len(subscribers) : subscribers[idx].isSubscriber
  /\ Len(batchResult.unique) >= 1
  /\ Len(batchResult.duplicates) >= 1

\* C13 (as claimed): under each strategy, a record whose key fields are all
\* empty or blank is classified unique and never joins a duplicate group.
C13_BlankKeyIsAlwaysUnique ==
  /\ \A k \in 1..Len(batchResult.duplicates) :
       ~AllKeyFieldsBlank(strategy,
                          subscribers[batchResult.duplicates[k].subscriber])
  /\ \A key \in DOMAIN duplicateGroups :
       \A k \in 1..Len(duplicateGroups[key]) :
         ~AllKeyFieldsBlank(strategy, subscribers[duplicateGroups[key][k]])

\* C14 (as claimed): a second processBatch over the same input, in the same
\* order, with the same strategy returns the same unique and duplicate
\* partitions as the first.
C14_SecondRunSamePartitions ==
  runs = 2 =>
    /\ batchResult.unique = previousResult.unique
    /\ [k \in 1..Len(batchResult.duplicates) |->
          batchResult.duplicates[k].subscriber]
         = [k \in 1..Len(previousResult.duplicates) |->
              previousResult.duplicates[k].subscriber]

\* C15 (as claimed): every write of saveCheckpoint creates a file whose id
\* is not the id of a checkpoint already stored for the session.
C15_EverySaveWritesANewId ==
  [][\A p \in Savers :
       (savePc[p] = "built" /\ savePc'[p] = "written") =>
         saveCheckpointOf[p].id \notin DOMAIN files]_vars

\* C16 (as claimed): when a saveCheckpoint completes, at most maxCheckpoints
\* checkpoints of the session are stored, and every checkpoint its pruning
\* removed is older than every checkpoint that remains.
C16_AtMostMaxCheckpointsAfterSave ==
  [][\A p \in Savers :
       (savePc[p] = "listed" /\ savePc'[p] = "idle") =>
         /\ Cardinality(DOMAIN files') <= maxCheckpoints
         /\ \A gone \in (DOMAIN files) \ DOMAIN files' :
              \A kept \in DOMAIN files' :
                files[gone].timestamp < files'[kept].timestamp]_vars

\* C17 (as claimed): findResumableSessions never returns the session once
\* its processedRecords has reached totalRecords or its status has become
\* completed or failed.
C17_FinishedSessionNotReturned == findResult # "finished"

\* C18 (as claimed): the auto-save timer writes a checkpoint only while a
\* tracker is attached (not after detachFromTracker or shutdown) and that
\* tracker's status is active.
C18_AutoSaveWritesOnlyWhileActive ==
  [][(savePc["timer"] = "built" /\ savePc'["timer"] = "written") =>
       (progressTracker = "tracker" /\ status = "active")]_vars

\* C19: an error built by ErrorFactory is classified by the table, read in
\* this order: HTTP 401/403 fatal; HTTP 429 retryable, delay the retry-after
\* seconds times 1000 ms when the server sends them, else 5000 ms; HTTP
\* 500/502/503/504 retryable, 2000 ms; connection refused or DNS failure
\* retryable, 2000 ms; timeout retryable, 3000 ms; a validation error and
\* any other HTTP status fatal.
C19_ClassificationFollowsTheTable ==
  LET st == StatusOf(cause)
      secondsSent == cause.retryAfter # Absent /\ Len(cause.retryAfter) > 0
      retryable == IsRetryable(thrown)
      delay == ErrorGetRetryDelay(thrown, thrownRetryAfter)
  IN
  /\ cause.kind = "response" =>
       IF st \in {401, 403} THEN ~retryable
       ELSE IF st = 429
       THEN /\ retryable
            /\ HasGetRetryDelay(thrown)
            /\ delay = IF secondsSent
                       THEN ToNumber(cause.retryAfter) * 1000 ELSE 5000
       ELSE IF st \in {500, 502, 503, 504}
       THEN retryable /\ HasGetRetryDelay(thrown) /\ delay = 2000
       ELSE ~retryable
  /\ (cause.kind = "network" /\ cause.code \in {"ECONNREFUSED", "ENOTFOUND"})
       => (retryable /\ HasGetRetryDelay(thrown) /\ delay = 2000)
  /\ (cause.kind = "network" /\ cause.code = "ETIMEDOUT")
       => (retryable /\ HasGetRetryDelay(thrown) /\ delay = 3000)
  /\ cause.kind = "validation" => ~retryable

\* a 429 response with retry-after "13" has been classified: 13000 ms
C19_Witness ==
  /\ cause.kind = "response"
  /\ StatusOf(cause) = 429
  /\ cause.retryAfter = <<"1", "3">>
  /\ thrown.name = "RateLimitError"
  /\ ErrorGetRetryDelay(thrown, thrownRetryAfter) = 13000

\* C20 (as claimed): a failure with no HTTP response and no recognised
\* network error code is fatal: after it HttpClient.request does not sleep
\* for another try and the command retry loop does not either.
C20_UnknownErrorIsNeverRetried ==
  [][(\E outcome \in Outcomes :
        /\ outcome.kind = "network"
        /\ outcome.code \notin {"ECONNREFUSED", "ENOTFOUND", "ETIMEDOUT"}
        /\ Respond(outcome))
     => pc' \notin {"httpSleep", "cmdSleep"}]_vars

\* C22 (as claimed): the status of the ProgressTracker changes only along
\* idle -> active, active -> paused, paused -> active, active or paused ->
\* completed or failed, and anything -> shutdown; nothing but shutdown leaves
\* completed or failed, and nothing leaves shutdown.
C22_StatusOnlyAlongTransitions ==
  [][\/ status' = status
     \/ status' = "shutdown" /\ status # "shutdown"
     \/ <<status, status'>> \in
          {<<"idle", "active">>, <<"active", "paused">>,
           <<"paused", "active">>, <<"active", "completed">>,
           <<"active", "failed">>, <<"paused", "completed">>,
           <<"paused", "failed">>}]_vars

\* C23: when observers throw during a notification, every registered
\* observer has still been called for the event, nothing is raised to the
\* caller of the event method, and the step is the one the same call makes
\* when no observer throws.
C23_ThrowingObserverIsIsolated ==
  /\ [](lastNotified => (delivered = Registered(observers) /\ ~raised))
  /\ [][\A th \in Throwers :
          /\ \A p \in Phases : PhaseChange(p, th) => PhaseChange(p, {})
          /\ \A ok \in BOOLEAN, thr \in BOOLEAN :
               RecordProcessed(ok, thr, th) => RecordProcessed(ok, thr, {})
          /\ StartSession(MaxRecords, th) => StartSession(MaxRecords, {})]_vars

\* the first of two observers threw during an event and the second was
\* still called
C23_Witness ==
  /\ lastNotified
  /\ Len(observers) = 2
  /\ observers[1] # observers[2]
  /\ lastThrowers = {observers[1]}
  /\ observers[2] \in delivered
  /\ processedRecords = 1

\* C24 (as claimed): an observer given to removeObserver is not called for
\* any later event, the observers still registered are, and removing an
\* observer that is not registered leaves the list as it is.
C24_RemovedObserverIsNotNotified ==
  /\ [](lastNotified => (/\ delivered \cap removed = {}
                         /\ Registered(observers) \subseteq delivered))
  /\ [][\A o \in ObserverIds :
          (RemoveObserver(o) /\ o \notin Registered(observers))
             => observers' = observers]_vars

\* C26 (as claimed): the saves of one session do not interleave: a save
\* writes its file only when no other save of the session is between its
\* write and the end of its pruning.
C26_SavesOfASessionDoNotInterleave ==
  [][\A p \in Savers :
       (savePc[p] = "built" /\ savePc'[p] = "written") =>
         \A q \in Savers \ {p} : savePc[q] \notin {"written", "listed"}]_vars

\* C27 (as claimed): in concurrent mode with failFast, once a command has
\* its final failed result no command still waiting for the semaphore is
\* admitted.
C27_NothingAdmittedAfterAFailure ==
  [][(concurrency > 1 /\ failFast /\ \E f \in Ops : opResult'[f] = "failed")
       => \A op \in Ops :
            opState[op] = "waiting" => opState'[op] = "waiting"]_vars

C28_TrackerNeverThrowsOnMalformedInput ==
  ~raised

\* C21: an import whose records fail at submission still ends with the
\* ImportSession completed and a successful result, the failures being
\* counted in failedRecords; the session ends as failed exactly when a step
\* of the pipeline threw (connection test, CSV read, batch execution).
C21_RecordFailuresDoNotFailTheSession ==
  importPc = "returned" =>
    /\ stepThrew <=> importStatus = "failed"
    /\ ~stepThrew <=> importStatus = "completed"
    /\ importStatus = "completed" <=> importResult = "success"
    /\ importStatus = "failed" <=> importResult = "failure"
    /\ progress.failedRecords <= progress.processedRecords

\* two subscribers were submitted, both failed, and the import has returned
\* success with a completed session
C21_Witness ==
  /\ importPc = "returned"
  /\ Len(uniqueData) = 2
  /\ progress.failedRecords = 2 /\ progress.successfulRecords = 0
  /\ \A i \in 1..Len(loaded) : loaded[i].valid
  /\ importStatus = "completed"
  /\ importResult = "success"

\* C25 (as claimed): when BatchProcessCommand.execute returns a failed
\* result, the caller of subscribeUsersBatch gets the failure (an
\* exception), never a batch result.
C25_BatchFailureReachesTheCaller ==
  lastBatch.failed => lastBatch.threw

\* C29 (as claimed): with failFast off, once importToLaylo is through its
\* batches every subscriber given to it has been recorded exactly once and
\* processedRecords = successfulRecords + failedRecords = the number of
\* subscribers submitted.
C29_EverySubscriberRecordedOnce ==
  (~importFailFast /\ importPc = "importing") =>
    /\ progress.processedRecords
         = progress.successfulRecords + progress.failedRecords
    /\ progress.processedRecords = submittedRecords
    /\ \A k \in 1..Len(uniqueData) :
         k <= importBatchIndex * importBatchSize =>
           recordedTimes[uniqueData[k]] = 1

\* C9 (as claimed): every request sent is preceded by its own
\* RateLimiter.acquire(), so the requests sent never exceed the tokens
\* consumed.
C9_EveryRequestHasItsToken ==
  requestsSent <= tokensConsumed

====
